---- MODULE Spec2Model ----
(***************************************************************************)
(* A model of the ANISE frame graph resolver (context/query_ephem.rs), of   *)
(* the Almanac loader (almanac/mod.rs), of the DAF file and name records   *)
(* (naif/daf/recordtypes.rs) and of the Hermite interpolation              *)
(* (math/polyfit/hrmint.rs).                                               *)
(*                                                                         *)
(* Results of fallible functions are records with a tag: "Ok", "Err" (the  *)
(* variant is in err), "Panic" (an out-of-bounds index or unreachable!())  *)
(* or "StackOverflow" (a recursion that does not return).                  *)
(***************************************************************************)
EXTENDS Integers, Sequences, FiniteSets, TLC

VARIABLES
    ctx,        \* the loaded AniseContext: ephemeris_lut and ephemeris_data
    op,         \* the query last made on the context
    args,       \* its arguments
    ret,        \* what it returned
    almanac,    \* the Almanac the caller holds (the receiver of the loads)
    earlier,    \* the Almanac the caller held before it adopted this one
    loaded,     \* what the last load on almanac returned
    almOp,      \* the Almanac operation last made
    raw_names,  \* the bytes of a NameRecord shared by two threads
    writer,     \* the thread in set_nth_name on raw_names
    reader,     \* the thread in nth_name on raw_names
    hrm         \* the locals of a call of hrmint_ and where it stands

vars == <<ctx, op, args, ret, almanac, earlier, loaded, almOp,
          raw_names, writer, reader, hrm>>
resolverVars == <<ctx, op, args, ret>>
almanacVars == <<almanac, earlier, loaded, almOp>>
recordVars == <<raw_names, writer, reader>>
hermiteVars == <<hrm>>

----------------------------------------------------------------------------
(* Program constants *)

MAX_TREE_DEPTH == 8
SOLAR_SYSTEM_BARYCENTER == 0
MAX_LOADED_SPKS == 32
MAX_LOADED_BPCS == 8

\* Option::None of an Option<u32> / Option<file>
NONE == -1

----------------------------------------------------------------------------
(* Bounds of the model *)

\* identifiers 0..MaxHash carry arbitrary parent maps
MaxHash == 2
\* trees of up to MaxEdges edges: a trunk below two branches of up to MaxBranch
MaxEdges == 9
MaxBranch == 2

\* orientation identifiers and epochs of the queries
Orients == {0, 1}
Epochs == {0, 1}

----------------------------------------------------------------------------
(* Vector3 (math::Vector3): three components; integers stand for f64, and   *)
(* no component other than zero ever arises in query_ephem.rs.              *)

Ones == <<1, 1, 1>>
Zeros == <<0, 0, 0>>
VSub(a, b) == <<a[1] - b[1], a[2] - b[2], a[3] - b[3]>>
VAdd(a, b) == <<a[1] + b[1], a[2] + b[2], a[3] + b[3]>>
VNeg(a) == <<0 - a[1], 0 - a[2], 0 - a[3]>>

----------------------------------------------------------------------------
(* Frame: (ephemeris_hash, orientation_hash); == is derived field equality  *)

Frame(e, o) == [ephemeris_hash |-> e, orientation_hash |-> o]
FrameEq(a, b) ==
    a.ephemeris_hash = b.ephemeris_hash /\ a.orientation_hash = b.orientation_hash
with_ephem(frame, new_ephem_hash) ==
    [frame EXCEPT !.ephemeris_hash = new_ephem_hash]

----------------------------------------------------------------------------
(* AniseContext: ephemeris_lut maps a hash to an index (NONE: no entry),    *)
(* ephemeris_data[i + 1] is the parent_ephemeris_hash of the entry of       *)
(* index i.                                                                 *)

index_for_hash(c, hash) ==
    IF hash \in DOMAIN c.lut /\ c.lut[hash] # NONE
    THEN [tag |-> "Ok", val |-> c.lut[hash], err |-> "none"]
    ELSE [tag |-> "Err", val |-> NONE, err |-> "ItemNotFound"]

try_ephemeris_data(c, idx) ==
    IF idx + 1 \in DOMAIN c.data
    THEN [tag |-> "Ok", val |-> c.data[idx + 1], err |-> "none"]
    ELSE [tag |-> "Err", val |-> NONE, err |-> "IntegrityError(LookupTable)"]

NoError == [kind |-> "none", frames |-> <<>>]
Error(kind) == [kind |-> kind, frames |-> <<>>]
DisjointRoots(from_frame, to_frame) ==
    [kind |-> "IntegrityError(DisjointRoots)", frames |-> <<from_frame, to_frame>>]

----------------------------------------------------------------------------
(* try_ephemeris_path: the path of parent hashes from the source frame up   *)
(* to the solar system barycenter or to the root of the context.            *)

\* let mut of_path = [None; MAX_TREE_DEPTH]
EmptyPath == [i \in 0..(MAX_TREE_DEPTH - 1) |-> NONE]

\* for _ in 0..MAX_TREE_DEPTH
PathLoopBoundOffByOne == MAX_TREE_DEPTH + 1
PathLoopBound == MAX_TREE_DEPTH

PathErr(kind, lookups) ==
    [tag |-> "Err", err |-> Error(kind), len |-> 0, path |-> EmptyPath,
     lookups |-> lookups]

\* One iteration of the loop body, then the rest of the loop.  lookups counts
\* the index_for_hash(&prev_ephem_hash) lookups made so far.
RECURSIVE PathLoop(_, _, _, _, _)
PathLoop(c, it, of_path, of_path_len, prev_ephem_hash) ==
    IF it >= PathLoopBound
    THEN PathErr("MaxTreeDepth", it)
    ELSE
      LET idx == index_for_hash(c, prev_ephem_hash) IN
      IF idx.tag = "Err" THEN PathErr(idx.err, it + 1)
      ELSE
        LET parent_ephem == try_ephemeris_data(c, idx.val) IN
        IF parent_ephem.tag = "Err" THEN PathErr(parent_ephem.err, it + 1)
        ELSE
          LET parent_hash == parent_ephem.val IN
          IF of_path_len \notin DOMAIN of_path
          THEN [tag |-> "Panic", err |-> Error("index out of bounds"),
                len |-> of_path_len, path |-> of_path, lookups |-> it + 1]
          ELSE
            LET path2 == [of_path EXCEPT ![of_path_len] = parent_hash]
                len2 == of_path_len + 1
                ok == [tag |-> "Ok", err |-> NoError, len |-> len2,
                       path |-> path2, lookups |-> it + 1]
                at_parent == index_for_hash(c, parent_hash)
            IN
            IF parent_hash = SOLAR_SYSTEM_BARYCENTER THEN ok
            ELSE IF at_parent.tag = "Err" /\ at_parent.err = "ItemNotFound" THEN ok
            ELSE PathLoop(c, it + 1, path2, len2, parent_hash)

try_ephemeris_path(c, source) ==
    PathLoop(c, 0, EmptyPath, 0, source.ephemeris_hash)

----------------------------------------------------------------------------
(* find_ephemeris_root: the common node of the paths of two frames.         *)

RootOk(hash) == [tag |-> "Ok", val |-> hash, err |-> NoError]
RootErr(tag, err) == [tag |-> tag, val |-> NONE, err |-> err]

\* for o in outer.iter().take(outer_len) { for i in inner.iter().take(inner_len)
\*   { if i == o { return Ok(o.unwrap()) } } }: the first entry of the outer
\* path that some entry of the inner path equals, NONE when the loops end.
\* a scan that returns the head of the outer path when the paths meet at all
ScanPathsOuterHead(outer, outer_len, inner, inner_len, k) ==
    IF \E i \in 0..(outer_len - 1), j \in 0..(inner_len - 1) : inner[j] = outer[i]
    THEN outer[0]
    ELSE NONE
RECURSIVE ScanPaths(_, _, _, _, _)
ScanPaths(outer, outer_len, inner, inner_len, k) ==
    IF k >= outer_len THEN NONE
    ELSE IF \E j \in 0..(inner_len - 1) : inner[j] = outer[k] THEN outer[k]
    ELSE ScanPaths(outer, outer_len, inner, inner_len, k + 1)

find_ephemeris_root(c, from_frame, to_frame) ==
    IF FrameEq(from_frame, to_frame) THEN RootOk(from_frame.ephemeris_hash)
    ELSE
      LET from == try_ephemeris_path(c, from_frame) IN
      IF from.tag # "Ok" THEN RootErr(from.tag, from.err)
      ELSE
        LET to == try_ephemeris_path(c, to_frame) IN
        IF to.tag # "Ok" THEN RootErr(to.tag, to.err)
        ELSE IF from.len = 0 /\ to.len = 0
             THEN RootErr("Err", DisjointRoots(from_frame, to_frame))
        ELSE IF from.len # 0 /\ to.len = 0 THEN RootOk(to_frame.ephemeris_hash)
        ELSE IF to.len # 0 /\ from.len = 0 THEN RootOk(from_frame.ephemeris_hash)
        ELSE
          LET found ==
                IF from.len > to.len
                THEN ScanPaths(to.path, to.len, from.path, from.len, 0)
                ELSE ScanPaths(from.path, from.len, to.path, to.len, 0)
          IN
          IF found # NONE THEN RootOk(found)
          ELSE RootErr("Err", Error("IntegrityError(DataMissing)"))

----------------------------------------------------------------------------
(* translate_from_to: the position and velocity that translate from_frame   *)
(* to to_frame.  depth is the nesting of this call below the caller's       *)
(* (0 for the caller's), stack the (from, to) pairs of the calls that have  *)
(* not returned.  The function is deterministic and reads nothing but its   *)
(* arguments and the context, so a call made again while it is still on the *)
(* stack recurses without end: the stack overflows.                         *)

Max(a, b) == IF a >= b THEN a ELSE b

\* if from_frame == to_frame { return Ok((Vector3::zeros(), Vector3::zeros())) }
ShortcutSkipped(from_frame, to_frame) == FALSE
SameFrameShortcut(from_frame, to_frame) == FrameEq(from_frame, to_frame)

TranslateOk(pos, vel, depth, roots) ==
    [tag |-> "Ok", pos |-> pos, vel |-> vel, err |-> NoError,
     depth |-> depth, roots |-> roots]
TranslateFail(tag, err, depth, roots) ==
    [tag |-> tag, pos |-> Zeros, vel |-> Zeros, err |-> err,
     depth |-> depth, roots |-> roots]

RECURSIVE translate_rec(_, _, _, _, _, _)
translate_rec(c, from_frame, to_frame, epoch, depth, stack) ==
    IF <<from_frame, to_frame>> \in stack
    THEN TranslateFail("StackOverflow", Error("stack overflow"), depth, 0)
    ELSE IF SameFrameShortcut(from_frame, to_frame)
    THEN TranslateOk(Zeros, Zeros, depth, 0)
    ELSE
      LET ephem_root == find_ephemeris_root(c, from_frame, to_frame)
          inner == stack \cup {<<from_frame, to_frame>>}
      IN
      IF ephem_root.tag # "Ok"
      THEN TranslateFail(ephem_root.tag, ephem_root.err, depth, 1)
      ELSE
        LET from_to_root ==
              translate_rec(c, from_frame, with_ephem(from_frame, ephem_root.val),
                            epoch, depth + 1, inner)
        IN
        IF from_to_root.tag # "Ok"
        THEN TranslateFail(from_to_root.tag, from_to_root.err,
                           from_to_root.depth, from_to_root.roots + 1)
        ELSE
          LET to_to_root ==
                translate_rec(c, to_frame, with_ephem(to_frame, ephem_root.val),
                              epoch, depth + 1, inner)
              deepest == Max(from_to_root.depth, to_to_root.depth)
              roots == from_to_root.roots + to_to_root.roots + 1
          IN
          IF to_to_root.tag # "Ok"
          THEN TranslateFail(to_to_root.tag, to_to_root.err, deepest, roots)
          ELSE TranslateOk(VSub(from_to_root.pos, to_to_root.pos),
                           VSub(from_to_root.vel, to_to_root.vel), deepest, roots)

\* a translation that depends on the epoch: the position of a success is
\* (epoch, 0, 0)
translate_from_to_at_epoch(c, from_frame, to_frame, epoch) ==
    LET r == translate_rec(c, from_frame, to_frame, epoch, 0, {})
    IN IF r.tag = "Ok" THEN [r EXCEPT !.pos = <<epoch, 0, 0>>] ELSE r
translate_from_to(c, from_frame, to_frame, epoch) ==
    translate_rec(c, from_frame, to_frame, epoch, 0, {})

----------------------------------------------------------------------------
(* The contexts a file can decode to.  A parent map gives each identifier   *)
(* its parent_ephemeris_hash, NONE for an identifier without an entry.      *)

\* identifiers of the model; MaxId never has an entry
MaxId == MaxEdges + 2 * MaxBranch + 2
Ids == 0..MaxId

\* The context of a parent map: the entries in identifier order; dropped = 1
\* is a file whose ephemeris_data lacks the last entry the lookup table names.
CtxOf(pm, dropped) ==
    LET have == {h \in Ids : pm[h] # NONE}
        idx(h) == Cardinality({g \in have : g < h})
        entry(i) == CHOOSE h \in have : idx(h) = i
    IN [lut |-> [h \in Ids |-> IF h \in have THEN idx(h) ELSE NONE],
        data |-> [i \in 1..(Cardinality(have) - dropped) |-> pm[entry(i - 1)]]]

\* every parent map over the identifiers 0..MaxHash (cycles, self-parents and
\* an entry for the barycenter included)
SmallMaps ==
    {[h \in Ids |-> IF h <= MaxHash THEN f[h] ELSE NONE] :
        f \in [0..MaxHash -> (0..MaxHash) \cup {NONE}]}

\* a tree: a trunk of c edges 1 <- 2 <- .. <- c above the root, a left branch
\* of a edges and a right branch of b edges on top of the trunk
Left(j) == MaxEdges + j
Right(j) == MaxEdges + MaxBranch + j
UnloadedRoot == MaxEdges + 2 * MaxBranch + 1
TreeMap(a, b, c, root) ==
    LET top == IF c = 0 THEN root ELSE c IN
    [h \in Ids |->
        IF h \in 1..c THEN (IF h = 1 THEN root ELSE h - 1)
        ELSE IF \E j \in 1..a : h = Left(j)
             THEN (IF h = Left(1) THEN top ELSE h - 1)
        ELSE IF \E j \in 1..b : h = Right(j)
             THEN (IF h = Right(1) THEN top ELSE h - 1)
        ELSE NONE]
TreeShapes ==
    {s \in (0..MaxBranch) \X (0..MaxBranch) \X (0..MaxEdges) :
        s[2] <= s[1] /\ s[1] + s[2] + s[3] <= MaxEdges}
TreeMaps ==
    {TreeMap(s[1], s[2], s[3], root) :
        s \in TreeShapes, root \in {SOLAR_SYSTEM_BARYCENTER, UnloadedRoot}}

Contexts ==
    {CtxOf(pm, dropped) : pm \in SmallMaps, dropped \in {0, 1}}
        \cup {CtxOf(pm, 0) : pm \in TreeMaps}

\* the frames worth asking about: every identifier the context mentions, the
\* barycenter and one identifier it does not mention
QueryHashes(c) ==
    {h \in Ids : c.lut[h] # NONE} \cup {c.data[i] : i \in DOMAIN c.data}
        \cup {SOLAR_SYSTEM_BARYCENTER, MaxId}
QueryFrames(c) == {Frame(e, o) : e \in QueryHashes(c), o \in Orients}
\* the frame a query starts from has the first orientation
SourceFrames(c) == {Frame(e, 0) : e \in QueryHashes(c)}

----------------------------------------------------------------------------
(* DAF file record: the identifier word locidw of 8 bytes                   *)

\* size_of::<DAFFileRecord>(): locidw, nd, ni, locifn, forward, backward,
\* free_addr, locfmt, prenul, ftpstr, pstnul
FileRecordSize == 8 + 4 + 4 + 60 + 4 + 4 + 4 + 8 + 603 + 28 + 297

\* the bytes of "DAF/SPK ", "DAF/PCK ", "DAF/CK  " and of eight zero bytes
WordSPK == <<68, 65, 70, 47, 83, 80, 75, 32>>
WordPCK == <<68, 65, 70, 47, 80, 67, 75, 32>>
WordCK == <<68, 65, 70, 47, 67, 75, 32, 32>>
WordZeros == <<0, 0, 0, 0, 0, 0, 0, 0>>
\* "DA", the two bytes of U+00E9 and "SPK ": well-formed UTF-8 in which byte
\* index 3 is inside a character
WordSplit == <<68, 65, 195, 169, 83, 80, 75, 32>>

\* The width of the well-formed UTF-8 character that starts at byte i of w,
\* 0 when none does (core::str::from_utf8 rejects the bytes there).
CharWidth(w, i) ==
    LET b == w[i]
        cont(k) == i + k <= Len(w) /\ w[i + k] \in 128..191
        second(lo, hi) == i + 1 <= Len(w) /\ w[i + 1] \in lo..hi
    IN IF b < 128 THEN 1
       ELSE IF b \in 194..223 THEN (IF cont(1) THEN 2 ELSE 0)
       ELSE IF b = 224 THEN (IF second(160, 191) /\ cont(2) THEN 3 ELSE 0)
       ELSE IF b \in (225..236) \cup (238..239)
            THEN (IF cont(1) /\ cont(2) THEN 3 ELSE 0)
       ELSE IF b = 237 THEN (IF second(128, 159) /\ cont(2) THEN 3 ELSE 0)
       ELSE IF b = 240 THEN (IF second(144, 191) /\ cont(2) /\ cont(3) THEN 4 ELSE 0)
       ELSE IF b \in 241..243 THEN (IF cont(1) /\ cont(2) /\ cont(3) THEN 4 ELSE 0)
       ELSE IF b = 244 THEN (IF second(128, 143) /\ cont(2) /\ cont(3) THEN 4 ELSE 0)
       ELSE 0

\* a byte that continues a character
IsContinuation(b) == b \in 128..191

\* core::str::from_utf8 accepts w: a character starts at the first byte, every
\* byte that starts one starts a well-formed one, and the byte after a
\* character starts the next.  A str is the sequence of its bytes.
Utf8Valid(w) ==
    \/ w = <<>>
    \/ /\ ~IsContinuation(w[1])
       /\ \A i \in DOMAIN w :
            ~IsContinuation(w[i]) =>
                /\ CharWidth(w, i) > 0
                /\ i + CharWidth(w, i) <= Len(w) =>
                        ~IsContinuation(w[i + CharWidth(w, i)])

\* str::is_char_boundary, which a slice &s[from..to] checks at both ends
is_char_boundary(s, index) ==
    \/ index = 0
    \/ index = Len(s)
    \/ index < Len(s) /\ ~IsContinuation(s[index + 1])
\* s.chars().nth(k): the bytes of character k (from 0), <<>> for None
CharsNth(s, k) ==
    LET starts == {i \in DOMAIN s : ~IsContinuation(s[i])}
        at == {i \in starts : Cardinality({j \in starts : j < i}) = k}
    IN IF at = {} THEN <<>>
       ELSE LET i == CHOOSE j \in at : TRUE IN SubSeq(s, i, i + CharWidth(s, i) - 1)

\* char::is_whitespace: the characters of the Unicode property White_Space
IsWhitespace(ch) ==
    \/ Len(ch) = 1 /\ ch[1] \in {9, 10, 11, 12, 13, 32}
    \/ ch \in {<<194, 133>>, <<194, 160>>, <<225, 154, 128>>, <<226, 128, 168>>,
               <<226, 128, 169>>, <<226, 128, 175>>, <<226, 129, 159>>,
               <<227, 128, 128>>}
    \/ Len(ch) = 3 /\ ch[1] = 226 /\ ch[2] = 128 /\ ch[3] \in 128..138
\* str::trim: from the first to the last character that is not whitespace
Trim(s) ==
    LET starts == {i \in DOMAIN s : ~IsContinuation(s[i])}
        ch(i) == SubSeq(s, i, i + CharWidth(s, i) - 1)
        kept == {i \in starts : ~IsWhitespace(ch(i))}
    IN IF kept = {} THEN <<>>
       ELSE LET lo == CHOOSE i \in kept : \A j \in kept : i <= j
                hi == CHOOSE i \in kept : \A j \in kept : j <= i
            IN SubSeq(s, lo, hi + CharWidth(s, hi) - 1)

IdentErr == [tag |-> "Err", val |-> "none", err |-> "DAFParserError"]
IdentPanic(index) ==
    [tag |-> "Panic", val |-> "none",
     err |-> IF index = 3 THEN "byte index 3 is not a char boundary"
             ELSE "byte index 4 is not a char boundary"]

identification(locidw) ==
    IF ~Utf8Valid(locidw) THEN IdentErr
    ELSE LET str_locidw == locidw IN
         IF ~is_char_boundary(str_locidw, 3) THEN IdentPanic(3)
         ELSE IF \/ SubSeq(str_locidw, 1, 3) # <<68, 65, 70>>
                 \/ CharsNth(str_locidw, 3) # <<47>>
         THEN IdentErr
         ELSE IF ~is_char_boundary(str_locidw, 4) THEN IdentPanic(4)
         ELSE LET subtype == Trim(SubSeq(str_locidw, 5, Len(str_locidw))) IN
              IF subtype = <<83, 80, 75>> THEN [tag |-> "Ok", val |-> "SPK", err |-> "none"]
              ELSE IF subtype = <<80, 67, 75>> THEN [tag |-> "Ok", val |-> "PCK", err |-> "none"]
              ELSE IdentErr

----------------------------------------------------------------------------
(* The Almanac: the loaded SPK and BPC files and the three datasets.  A     *)
(* file or dataset is named by a number, NONE is an empty slot and 0 the    *)
(* default (empty) dataset.                                                 *)

DefaultAlmanac ==
    [spk_data |-> [i \in 0..(MAX_LOADED_SPKS - 1) |-> NONE],
     bpc_data |-> [i \in 0..(MAX_LOADED_BPCS - 1) |-> NONE],
     planetary_data |-> 0,
     spacecraft_data |-> 0,
     euler_param_data |-> 0]

\* #[derive(Clone)]: a copy of every field
Clone(self) == [f \in DOMAIN self |-> self[f]]

num_loaded(data) == Cardinality({i \in DOMAIN data : data[i] # NONE})

\* A method on &self gives back the receiver as the call leaves it (self) and
\* what it returns (ret).
Returned(self, tag, val, err) ==
    [self |-> self, ret |-> [tag |-> tag, val |-> val, err |-> err]]

with_spacecraft_data_in_place(self, spacecraft_data) ==
    LET me == [self EXCEPT !.spacecraft_data = spacecraft_data] IN
    Returned(me, "Ok", me, "none")
with_spacecraft_data(self, spacecraft_data) ==
    LET me == [Clone(self) EXCEPT !.spacecraft_data = spacecraft_data] IN
    Returned(self, "Ok", me, "none")

with_euler_parameters_as_spacecraft(self, ep_dataset) ==
    LET me == [Clone(self) EXCEPT !.spacecraft_data = ep_dataset] IN
    Returned(self, "Ok", me, "none")
with_euler_parameters(self, ep_dataset) ==
    LET me == [Clone(self) EXCEPT !.euler_param_data = ep_dataset] IN
    Returned(self, "Ok", me, "none")

with_planetary_data(self, planetary_data) ==
    LET me == [Clone(self) EXCEPT !.planetary_data = planetary_data] IN
    Returned(self, "Ok", me, "none")

\* the first empty slot of a table, NONE when it is full
FirstEmpty(data) ==
    IF \A i \in DOMAIN data : data[i] # NONE THEN NONE
    ELSE CHOOSE i \in DOMAIN data :
            data[i] = NONE /\ \A k \in DOMAIN data : data[k] = NONE => i <= k

with_spk_replacing_last(self, spk) ==
    LET slot == FirstEmpty(self.spk_data)
        at == IF slot = NONE THEN MAX_LOADED_SPKS - 1 ELSE slot
    IN Returned(self, "Ok", [Clone(self) EXCEPT !.spk_data[at] = spk], "none")
with_spk(self, spk) ==
    LET slot == FirstEmpty(self.spk_data) IN
    IF slot = NONE THEN Returned(self, "Err", DefaultAlmanac, "StructureIsFull")
    ELSE Returned(self, "Ok", [Clone(self) EXCEPT !.spk_data[slot] = spk], "none")

with_bpc(self, bpc) ==
    LET slot == FirstEmpty(self.bpc_data) IN
    IF slot = NONE THEN Returned(self, "Err", DefaultAlmanac, "StructureIsFull")
    ELSE Returned(self, "Ok", [Clone(self) EXCEPT !.bpc_data[slot] = bpc], "none")

\* with_context: the error wrapped in the caller's error, Ok untouched
WithContext(r, outer) ==
    IF r.ret.tag = "Err" THEN [r EXCEPT !.ret.err = outer] ELSE r

\* A buffer: its length, its identifier word, whether the parser of its kind
\* accepts the rest of it, what Metadata::decode_header makes of it, and the
\* file or dataset it holds.
Buffer(len, locidw, parses, header, id) ==
    [len |-> len, locidw |-> locidw, parses |-> parses, header |-> header, id |-> id]

load_from_bytes(self, bytes) ==
    IF bytes.len < FileRecordSize
    THEN Returned(self, "Panic", DefaultAlmanac, "range end index out of range")
    ELSE
      LET fileid == identification(bytes.locidw) IN
      IF fileid.tag = "Panic"
      THEN Returned(self, "Panic", DefaultAlmanac, fileid.err)
      ELSE IF fileid.tag = "Ok" THEN
        IF fileid.val = "PCK" THEN
          IF ~bytes.parses THEN Returned(self, "Err", DefaultAlmanac, "Orientation")
          ELSE WithContext(with_bpc(self, bytes.id), "Orientation")
        ELSE IF fileid.val = "SPK" THEN
          IF ~bytes.parses THEN Returned(self, "Err", DefaultAlmanac, "Ephemeris")
          ELSE WithContext(with_spk(self, bytes.id), "Ephemeris")
        ELSE Returned(self, "Err", DefaultAlmanac, "GenericError")
      ELSE IF bytes.header # "undecodable" THEN
        IF bytes.header = "NotApplicable"
        THEN Returned(self, "Panic", DefaultAlmanac, "unreachable: no such ANISE data yet")
        ELSE IF ~bytes.parses THEN Returned(self, "Err", DefaultAlmanac, "TLDataSet")
        ELSE IF bytes.header = "SpacecraftData" THEN with_spacecraft_data(self, bytes.id)
        ELSE IF bytes.header = "PlanetaryData" THEN with_planetary_data(self, bytes.id)
        ELSE with_euler_parameters(self, bytes.id)
      ELSE Returned(self, "Err", DefaultAlmanac, "GenericError")

NoLoad == [tag |-> "none", val |-> DefaultAlmanac, err |-> "none"]
NoCall == [name |-> "none", bytes |-> Buffer(0, WordZeros, FALSE, "undecodable", 0)]

\* no name record is shared, no thread is in it, hrmint_ is not called
NoRecord == <<>>
NoThread == [pc |-> "none"]
NoHermite == [pc |-> "none"]

----------------------------------------------------------------------------
(* The resolver: a context is decoded from a file, then queried.            *)

NoRet == [tag |-> "none"]

InitResolver ==
    /\ ctx \in Contexts
    /\ op = "none"
    /\ args = <<>>
    /\ ret = NoRet
    /\ almanac = DefaultAlmanac
    /\ earlier = DefaultAlmanac
    /\ loaded = NoLoad
    /\ almOp = NoCall
    /\ raw_names = NoRecord
    /\ writer = NoThread
    /\ reader = NoThread
    /\ hrm = NoHermite

CallTryEphemerisPath ==
    \E source \in SourceFrames(ctx) :
        /\ op = "none"
        /\ op' = "try_ephemeris_path"
        /\ args' = <<source>>
        /\ ret' = try_ephemeris_path(ctx, source)
        /\ UNCHANGED <<ctx, almanacVars, recordVars, hermiteVars>>

CallFindEphemerisRoot ==
    \E from_frame \in SourceFrames(ctx), to_frame \in QueryFrames(ctx) :
        /\ op = "none"
        /\ op' = "find_ephemeris_root"
        /\ args' = <<from_frame, to_frame>>
        /\ ret' = find_ephemeris_root(ctx, from_frame, to_frame)
        /\ UNCHANGED <<ctx, almanacVars, recordVars, hermiteVars>>

CallTranslateFromTo ==
    \E from_frame \in SourceFrames(ctx), to_frame \in QueryFrames(ctx),
       epoch \in Epochs :
        /\ op = "none"
        /\ op' = "translate_from_to"
        /\ args' = <<from_frame, to_frame, epoch>>
        /\ ret' = translate_from_to(ctx, from_frame, to_frame, epoch)
        /\ UNCHANGED <<ctx, almanacVars, recordVars, hermiteVars>>

\* the caller takes the result; the context is ready for the next query
Return ==
    /\ op # "none"
    /\ op' = "none"
    /\ args' = <<>>
    /\ ret' = NoRet
    /\ UNCHANGED <<ctx, almanacVars, recordVars, hermiteVars>>

NextResolver ==
    \/ Return
    \/ CallTryEphemerisPath
    \/ CallFindEphemerisRoot
    \/ CallTranslateFromTo

SpecResolver == InitResolver /\ [][NextResolver]_vars

----------------------------------------------------------------------------
(* The Almanac and its caller: the caller holds an Almanac, loads buffers   *)
(* into it, and may adopt the Almanac a load returned, keeping the one it   *)
(* held before.                                                             *)

EmptyContext == CtxOf([h \in Ids |-> NONE], 0)

\* The buffers offered to an Almanac.  A file is named by its place in the
\* table it would join, so the files of a table are pairwise distinct.
GoodAndBad(len, locidw, header, id) ==
    {Buffer(len, locidw, parses, header, id) : parses \in BOOLEAN}
Buffers(self) ==
    GoodAndBad(2 * FileRecordSize, WordSPK, "undecodable", num_loaded(self.spk_data) + 1)
    \cup GoodAndBad(2 * FileRecordSize, WordPCK, "undecodable", num_loaded(self.bpc_data) + 1)
    \cup GoodAndBad(FileRecordSize, WordZeros, "SpacecraftData", 1)
    \cup GoodAndBad(FileRecordSize, WordZeros, "PlanetaryData", 1)
    \cup GoodAndBad(FileRecordSize, WordZeros, "EulerParameterData", 1)
    \cup {Buffer(2 * FileRecordSize, WordZeros, FALSE, "undecodable", 0),
          Buffer(2 * FileRecordSize, WordCK, TRUE, "undecodable", 1),
          Buffer(FileRecordSize, WordZeros, TRUE, "NotApplicable", 1),
          Buffer(FileRecordSize - 1, WordSPK, FALSE, "undecodable", 0),
          Buffer(2 * FileRecordSize, WordSplit, FALSE, "undecodable", 0)}

InitAlmanac ==
    /\ almanac = DefaultAlmanac
    /\ earlier = DefaultAlmanac
    /\ loaded = NoLoad
    /\ almOp = NoCall
    /\ ctx = EmptyContext
    /\ op = "none"
    /\ args = <<>>
    /\ ret = NoRet
    /\ raw_names = NoRecord
    /\ writer = NoThread
    /\ reader = NoThread
    /\ hrm = NoHermite

\* the call made: the receiver as it leaves it, the result in loaded
Called(name, bytes, r) ==
    /\ almOp' = [name |-> name, bytes |-> bytes]
    /\ almanac' = r.self
    /\ loaded' = r.ret
    /\ UNCHANGED <<earlier, resolverVars, recordVars, hermiteVars>>

LoadFromBytes ==
    \E bytes \in Buffers(almanac) :
        Called("load_from_bytes", bytes, load_from_bytes(almanac, bytes))

WithSpacecraftData ==
    \E bytes \in GoodAndBad(FileRecordSize, WordZeros, "SpacecraftData", 1) :
        /\ bytes.parses
        /\ Called("with_spacecraft_data", bytes, with_spacecraft_data(almanac, bytes.id))

WithEulerParameters ==
    \E bytes \in GoodAndBad(FileRecordSize, WordZeros, "EulerParameterData", 1) :
        /\ bytes.parses
        /\ Called("with_euler_parameters", bytes, with_euler_parameters(almanac, bytes.id))

\* let almanac = loaded?: the caller goes on with the Almanac returned
Adopt ==
    /\ loaded.tag = "Ok"
    /\ earlier' = almanac
    /\ almanac' = loaded.val
    /\ loaded' = NoLoad
    /\ almOp' = NoCall
    /\ UNCHANGED <<resolverVars, recordVars, hermiteVars>>

NextAlmanac ==
    \/ LoadFromBytes
    \/ WithSpacecraftData
    \/ WithEulerParameters
    \/ Adopt

SpecAlmanac == InitAlmanac /\ [][NextAlmanac]_vars

----------------------------------------------------------------------------
(* Properties of the resolver                                               *)

IsPath == op = "try_ephemeris_path"
IsRoot == op = "find_ephemeris_root"
IsTranslate == op = "translate_from_to"
HasEntry(c, hash) == index_for_hash(c, hash).tag = "Ok"
PathSet(r) == {r.path[i] : i \in 0..(r.len - 1)}

\* C1: translate_from_to(F, F, t) is Ok((0, 0)) for every frame F and epoch t,
\* with or without an entry for F, and finds no root (makes no lookup).
C1_Identity ==
    (IsTranslate /\ FrameEq(args[1], args[2]))
        => /\ ret.tag = "Ok"
           /\ ret.pos = Zeros
           /\ ret.vel = Zeros
           /\ ret.roots = 0
           /\ ret.depth = 0

C1_Witness ==
    /\ IsTranslate
    /\ FrameEq(args[1], args[2])
    /\ ~HasEntry(ctx, args[1].ephemeris_hash)
    /\ ret.tag = "Ok"

\* C2: translate_from_to(A, B, t) succeeds exactly when translate_from_to(B, A, t)
\* does, and is then its componentwise negation in position and velocity.
C2_Antisymmetry ==
    IsTranslate =>
        LET back == translate_from_to(ctx, args[2], args[1], args[3]) IN
        /\ (ret.tag = "Ok") <=> (back.tag = "Ok")
        /\ ret.tag = "Ok" => (ret.pos = VNeg(back.pos) /\ ret.vel = VNeg(back.vel))

C2_Witness ==
    /\ IsTranslate
    /\ ~FrameEq(args[1], args[2])
    /\ ret.tag = "Ok"
    /\ translate_from_to(ctx, args[2], args[1], args[3]).tag = "Ok"

\* C3: two distinct frames whose paths both resolve and share no identifier
\* make find_ephemeris_root fail with DisjointRoots carrying the two frames.
C3_DisjointRoots ==
    (IsRoot /\ ~FrameEq(args[1], args[2]))
        => LET from == try_ephemeris_path(ctx, args[1])
               to == try_ephemeris_path(ctx, args[2])
           IN (from.tag = "Ok" /\ to.tag = "Ok" /\ PathSet(from) \cap PathSet(to) = {})
                => (ret.tag = "Err" /\ ret.err = DisjointRoots(args[1], args[2]))

\* the chain of a frame towards the root: its own identifier, then its path
SelfChain(frame, r) ==
    [i \in 1..(r.len + 1) |-> IF i = 1 THEN frame.ephemeris_hash ELSE r.path[i - 2]]

\* C4: find_ephemeris_root returns the lowest common ancestor: the first
\* identifier of the chain of from_frame that is on the chain of to_frame,
\* which is the ancestor frame itself when one frame is an ancestor of the
\* other.  Stated for two frames of different ephemeris identifiers.
C4_LowestCommonAncestor ==
    (IsRoot /\ args[1].ephemeris_hash # args[2].ephemeris_hash)
        => LET from == try_ephemeris_path(ctx, args[1])
               to == try_ephemeris_path(ctx, args[2])
               fc == SelfChain(args[1], from)
               tc == SelfChain(args[2], to)
               common == {i \in DOMAIN fc : \E j \in DOMAIN tc : tc[j] = fc[i]}
               first == CHOOSE i \in common : \A k \in common : i <= k
           IN (from.tag = "Ok" /\ to.tag = "Ok" /\ common # {})
                => (ret.tag = "Ok" /\ ret.val = fc[first])

\* C5: when exactly one of two distinct frames is the root of the loaded data
\* (no entry for its identifier) and the other has a non-empty path,
\* find_ephemeris_root returns the identifier of the root frame.
C5_RootFrame ==
    (IsRoot /\ ~FrameEq(args[1], args[2]))
        => LET from == try_ephemeris_path(ctx, args[1])
               to == try_ephemeris_path(ctx, args[2])
           IN /\ (~HasEntry(ctx, args[2].ephemeris_hash) /\ from.tag = "Ok" /\ from.len > 0)
                    => (ret.tag = "Ok" /\ ret.val = args[2].ephemeris_hash)
              /\ (~HasEntry(ctx, args[1].ephemeris_hash) /\ to.tag = "Ok" /\ to.len > 0)
                    => (ret.tag = "Ok" /\ ret.val = args[1].ephemeris_hash)

\* every index of the lookup table has its entry in ephemeris_data
Intact(c) == \A h \in DOMAIN c.lut : c.lut[h] # NONE => c.lut[h] + 1 \in DOMAIN c.data
ParentOf(c, hash) == c.data[c.lut[hash] + 1]
\* the edges of the parent chain from hash to the barycenter or to an identifier
\* without an entry; NONE when fuel edges do not reach one (a cycle)
RECURSIVE EdgesToRoot(_, _, _)
EdgesToRoot(c, hash, fuel) ==
    IF fuel = 0 THEN NONE
    ELSE LET p == ParentOf(c, hash) IN
         IF p = SOLAR_SYSTEM_BARYCENTER \/ ~HasEntry(c, p) THEN 1
         ELSE LET rest == EdgesToRoot(c, p, fuel - 1) IN
              IF rest = NONE THEN NONE ELSE rest + 1

C6_LongChainReached ==
    ~(IsPath /\ Intact(ctx) /\ HasEntry(ctx, args[1].ephemeris_hash)
        /\ EdgesToRoot(ctx, args[1].ephemeris_hash, MaxId + 2) = MAX_TREE_DEPTH + 1)
C6_CycleReached ==
    ~(IsPath /\ Intact(ctx) /\ HasEntry(ctx, args[1].ephemeris_hash)
        /\ EdgesToRoot(ctx, args[1].ephemeris_hash, MaxId + 2) = NONE)

\* C7: a call of translate_from_to returns, and its nested calls are never
\* deeper than 2 * MAX_TREE_DEPTH.
C7_RecursionBound ==
    IsTranslate => (ret.tag # "StackOverflow" /\ ret.depth <= 2 * MAX_TREE_DEPTH)

\* C8: translate_from_to(A, B, t) = translate_from_to(A, M, t) +
\* translate_from_to(M, B, t) for every frame M, both calls succeeding when
\* the call from A to B does.  Stated for the frames M on the path of A, the
\* intermediate frames the loaded data connects to A.
C8_Composability ==
    (IsTranslate /\ ret.tag = "Ok") =>
        LET from == try_ephemeris_path(ctx, args[1]) IN
        \A m \in QueryFrames(ctx) :
            (from.tag = "Ok" /\ m.ephemeris_hash \in PathSet(from)) =>
                LET am == translate_from_to(ctx, args[1], m, args[3])
                    mb == translate_from_to(ctx, m, args[2], args[3])
                IN /\ am.tag = "Ok"
                   /\ mb.tag = "Ok"
                   /\ ret.pos = VAdd(am.pos, mb.pos)
                   /\ ret.vel = VAdd(am.vel, mb.vel)

----------------------------------------------------------------------------
(* Properties of the Almanac                                                *)

IsLoad == almOp.name = "load_from_bytes"
IsCall == almOp.name # "none"
\* the buffer of the last call is a whole file of the subtype that parses
GoodFile(subtype) ==
    /\ IsLoad
    /\ almOp.bytes.len >= FileRecordSize
    /\ identification(almOp.bytes.locidw).tag = "Ok"
    /\ identification(almOp.bytes.locidw).val = subtype
    /\ almOp.bytes.parses
IsFull(data) == \A i \in DOMAIN data : data[i] # NONE

\* C9: load_from_bytes, with_spacecraft_data and with_euler_parameters leave
\* the Almanac they are called on, and the one held before it, as they were.
C9_ReceiverUnchanged ==
    [][almOp'.name # "none" => (almanac' = almanac /\ earlier' = earlier)]_vars

C9_Witness ==
    /\ IsLoad
    /\ loaded.tag = "Ok"
    /\ loaded.val # almanac
    /\ almanac # earlier
    /\ num_loaded(almanac.spk_data) > 0
    /\ num_loaded(almanac.bpc_data) > 0

\* the file went to the first empty slot of the table and nothing else moved
PlacedFirstEmpty(before, after, file) ==
    \E slot \in DOMAIN before :
        /\ before[slot] = NONE
        /\ \A i \in DOMAIN before : i < slot => before[i] # NONE
        /\ after[slot] = file
        /\ DOMAIN after = DOMAIN before
        /\ \A i \in DOMAIN before : i # slot => after[i] = before[i]

\* C10: an Almanac holds at most MAX_LOADED_SPKS SPK files and MAX_LOADED_BPCS
\* BPC files; a successful load puts the file in the first empty slot and
\* keeps the others; a load into a full table is an error and the receiver
\* keeps its files.
C10_Capacity ==
    /\ DOMAIN almanac.spk_data = 0..(MAX_LOADED_SPKS - 1)
    /\ DOMAIN almanac.bpc_data = 0..(MAX_LOADED_BPCS - 1)
    /\ num_loaded(almanac.spk_data) <= MAX_LOADED_SPKS
    /\ num_loaded(almanac.bpc_data) <= MAX_LOADED_BPCS
    /\ GoodFile("SPK") =>
         IF IsFull(almanac.spk_data)
         THEN loaded.tag = "Err"
         ELSE /\ loaded.tag = "Ok"
              /\ PlacedFirstEmpty(almanac.spk_data, loaded.val.spk_data, almOp.bytes.id)
              /\ num_loaded(loaded.val.spk_data) = num_loaded(almanac.spk_data) + 1
              /\ loaded.val.bpc_data = almanac.bpc_data
    /\ GoodFile("PCK") =>
         IF IsFull(almanac.bpc_data)
         THEN loaded.tag = "Err"
         ELSE /\ loaded.tag = "Ok"
              /\ PlacedFirstEmpty(almanac.bpc_data, loaded.val.bpc_data, almOp.bytes.id)
              /\ num_loaded(loaded.val.bpc_data) = num_loaded(almanac.bpc_data) + 1
              /\ loaded.val.spk_data = almanac.spk_data

C10_Witness ==
    /\ GoodFile("SPK")
    /\ IsFull(almanac.spk_data)
    /\ num_loaded(almanac.spk_data) = MAX_LOADED_SPKS
    /\ loaded.tag = "Err"

\* reached as well: a full BPC table refusing a file
C10_FullBpcReached == ~(GoodFile("PCK") /\ IsFull(almanac.bpc_data) /\ loaded.tag = "Err")

\* C11: load_from_bytes returns Ok or Err for every byte buffer, a buffer
\* shorter than the file record, a buffer of zeros, a DAF of an unsupported
\* subtype and a dataset of type NotApplicable included; it never panics.
C11_NeverPanics == IsLoad => loaded.tag \in {"Ok", "Err"}

\* the fields of the Almanac returned that differ from the receiver's
Changed == {f \in DOMAIN almanac : loaded.val[f] # almanac[f]}

\* C12: a load that succeeds touches what the header of the buffer names and
\* nothing else: a DAF/SPK adds to the SPK table only, a DAF/PCK to the BPC
\* table only, and a buffer that is no DAF replaces the one dataset its
\* dataset_type selects; every other field equals the receiver's.
C12_Dispatch ==
    (IsLoad /\ loaded.tag = "Ok") =>
        LET bytes == almOp.bytes IN
        /\ bytes.locidw \in {WordSPK, WordPCK, WordZeros}
        /\ bytes.locidw = WordSPK =>
             /\ Changed = {"spk_data"}
             /\ \E i \in DOMAIN almanac.spk_data : loaded.val.spk_data[i] = bytes.id
        /\ bytes.locidw = WordPCK =>
             /\ Changed = {"bpc_data"}
             /\ \E i \in DOMAIN almanac.bpc_data : loaded.val.bpc_data[i] = bytes.id
        /\ bytes.locidw = WordZeros =>
             /\ bytes.header \in {"SpacecraftData", "PlanetaryData", "EulerParameterData"}
             /\ bytes.header = "SpacecraftData" =>
                  Changed \subseteq {"spacecraft_data"} /\ loaded.val.spacecraft_data = bytes.id
             /\ bytes.header = "PlanetaryData" =>
                  Changed \subseteq {"planetary_data"} /\ loaded.val.planetary_data = bytes.id
             /\ bytes.header = "EulerParameterData" =>
                  Changed \subseteq {"euler_param_data"} /\ loaded.val.euler_param_data = bytes.id

\* Euler parameters loaded into an Almanac that holds files of both tables and
\* a spacecraft dataset
C12_Witness ==
    /\ IsLoad
    /\ loaded.tag = "Ok"
    /\ almOp.bytes.header = "EulerParameterData"
    /\ Changed = {"euler_param_data"}
    /\ num_loaded(almanac.spk_data) > 0
    /\ num_loaded(almanac.bpc_data) > 0
    /\ almanac.spacecraft_data # 0
    /\ loaded.val.spk_data = almanac.spk_data
    /\ loaded.val.bpc_data = almanac.bpc_data

----------------------------------------------------------------------------
(* DAFFileRecord: nd and ni are u32.  A number is written in base 2^16 as   *)
(* [hi, lo]; a u32 has hi < 2^16, and a number with a larger hi does not    *)
(* fit in 32 bits.                                                          *)

Wide(hi, lo) == [hi |-> hi, lo |-> lo]
WAdd(a, b) ==
    LET lo == a.lo + b.lo IN
    [hi |-> a.hi + b.hi + (lo \div 65536), lo |-> lo % 65536]
\* a / 2, rounded down
WHalf(a) == [hi |-> a.hi \div 2, lo |-> (a.lo + 65536 * (a.hi % 2)) \div 2]
FitsU32(a) == a.hi < 65536
WrapU32(a) == [a EXCEPT !.hi = a.hi % 65536]

\* a + b on u32: on overflow a panic in a build with overflow checks (debug),
\* the sum modulo 2^32 in a build without (release)
U32Add(a, b, overflow_checks) ==
    LET sum == WAdd(a, b) IN
    IF FitsU32(sum) THEN [tag |-> "Ok", val |-> sum]
    ELSE IF overflow_checks
    THEN [tag |-> "Panic", val |-> Wide(0, 0)]
    ELSE [tag |-> "Ok", val |-> WrapU32(sum)]

\* nd + (ni + 2) / 2, the sum with the division rounding up
summary_size_rounding_up(self, overflow_checks) ==
    LET ni2 == U32Add(self.ni, Wide(0, 2), overflow_checks) IN
    IF ni2.tag = "Panic" THEN ni2
    ELSE U32Add(self.nd, WHalf(ni2.val), overflow_checks)
\* (self.nd + (self.ni + 1) / 2) as usize
summary_size(self, overflow_checks) ==
    LET ni1 == U32Add(self.ni, Wide(0, 1), overflow_checks) IN
    IF ni1.tag = "Panic" THEN ni1
    ELSE U32Add(self.nd, WHalf(ni1.val), overflow_checks)

\* the values of nd and ni drawn: the MaxField + 1 smallest and largest u32
MaxField == 7
U32Samples ==
    {Wide(0, l) : l \in 0..MaxField} \cup {Wide(65535, 65535 - l) : l \in 0..MaxField}

\* The identifier words drawn: four leading bytes ("DAF/", "DAF ", "NAIF",
\* "daf/", "DAF" and the first byte of U+00E9, "DA" and U+00E9, U+1F680)
\* followed by any four bytes of S, P, K, C, space, tab and 0xA9; and the
\* word of eight zero bytes.
WordHeads ==
    {<<68, 65, 70, 47>>, <<68, 65, 70, 32>>, <<78, 65, 73, 70>>,
     <<100, 97, 102, 47>>, <<68, 65, 70, 195>>, <<68, 65, 195, 169>>,
     <<240, 159, 154, 128>>}
WordTailBytes == {83, 80, 75, 67, 32, 9, 169}
Words ==
    {h \o t : h \in WordHeads, t \in [1..4 -> WordTailBytes]} \cup {WordZeros}

\* a file record is decoded, then identification or summary_size is called
\* on it
InitFileRecord ==
    /\ op = "none"
    /\ args = <<>>
    /\ ret = NoRet
    /\ ctx = EmptyContext
    /\ almanac = DefaultAlmanac
    /\ earlier = DefaultAlmanac
    /\ loaded = NoLoad
    /\ almOp = NoCall
    /\ raw_names = NoRecord
    /\ writer = NoThread
    /\ reader = NoThread
    /\ hrm = NoHermite

CallIdentification ==
    \E locidw \in Words :
        /\ op = "none"
        /\ op' = "identification"
        /\ args' = <<locidw>>
        /\ ret' = identification(locidw)
        /\ UNCHANGED <<ctx, almanacVars, recordVars, hermiteVars>>

CallSummarySize ==
    \E nd \in U32Samples, ni \in U32Samples, overflow_checks \in BOOLEAN :
        /\ op = "none"
        /\ op' = "summary_size"
        /\ args' = <<[nd |-> nd, ni |-> ni], overflow_checks>>
        /\ ret' = summary_size([nd |-> nd, ni |-> ni], overflow_checks)
        /\ UNCHANGED <<ctx, almanacVars, recordVars, hermiteVars>>

NextFileRecord ==
    \/ Return
    \/ CallIdentification
    \/ CallSummarySize

SpecFileRecord == InitFileRecord /\ [][NextFileRecord]_vars

----------------------------------------------------------------------------
(* Properties of the file record                                            *)

\* C13: identification returns Ok("SPK") or Ok("PCK") exactly when the word
\* is "DAF/", the subtype and then only trailing spaces; every other word
\* (zeros, another subtype, no "DAF/", whitespace before the subtype,
\* non-ASCII bytes) gives DAFParserError, not Ok and not a panic.
C13_Identification ==
    op = "identification" =>
        /\ (ret.tag = "Ok" /\ ret.val = "SPK") <=> args[1] = WordSPK
        /\ (ret.tag = "Ok" /\ ret.val = "PCK") <=> args[1] = WordPCK
        /\ args[1] \notin {WordSPK, WordPCK} =>
             (ret.tag = "Err" /\ ret.err = "DAFParserError")

\* C14 as claimed: for every nd and ni of 32 bits summary_size returns
\* nd + ceil((ni + 1) / 2), computed without overflow.
C14_SummarySizeCeil ==
    op = "summary_size" =>
        LET nd == args[1].nd
            ni == args[1].ni
            ceil == WHalf(WAdd(ni, Wide(0, 2)))
        IN /\ ret.tag = "Ok"
           /\ ret.val = WAdd(nd, ceil)

\* C14 amended: summary_size returns nd + floor((ni + 1) / 2) whenever ni + 1
\* and the sum fit in 32 bits; otherwise the u32 arithmetic overflows, which
\* is a panic in a build with overflow checks and a wrapped value, not the
\* sum, in a build without.
C14_SummarySizeFloor ==
    op = "summary_size" =>
        LET nd == args[1].nd
            ni == args[1].ni
            floor == WHalf(WAdd(ni, Wide(0, 1)))
            exact == WAdd(nd, floor)
        IN /\ WAdd(floor, floor) \in {ni, WAdd(ni, Wide(0, 1))}
           /\ IF FitsU32(WAdd(ni, Wide(0, 1))) /\ FitsU32(exact)
              THEN ret.tag = "Ok" /\ ret.val = exact
              ELSE IF args[2] THEN ret.tag = "Panic"
              ELSE ret.tag = "Ok" /\ FitsU32(ret.val) /\ ret.val # exact

\* the record of an SPK file: nd = 2, ni = 6, five doubles per summary
C14_Witness ==
    /\ op = "summary_size"
    /\ args[1] = [nd |-> Wide(0, 2), ni |-> Wide(0, 6)]
    /\ ret = [tag |-> "Ok", val |-> Wide(0, 5)]

\* reached as well: ni + 1 overflowing with and without overflow checks
C14_OverflowReached ==
    ~(op = "summary_size" /\ args[1].ni = Wide(65535, 65535) /\ ret.tag = "Panic")
C14_WrapReached ==
    ~(op = "summary_size" /\ args[1].ni = Wide(65535, 65535) /\ ret.tag = "Ok")

----------------------------------------------------------------------------
(* NameRecord: raw_names, the RCRD_LEN bytes of one record, holds the names *)
(* of the summaries, ssize * DBL_SIZE bytes each, ssize being the          *)
(* summary_size of the file.  A name returned is the sequence of its bytes. *)
(* The products of n, ssize and DBL_SIZE are far below the range of usize   *)
(* for the values drawn.                                                    *)

RCRD_LEN == 1024
DBL_SIZE == 8

\* the bytes of "UNNAMED OBJECT"
UnnamedObject == <<85, 78, 78, 65, 77, 69, 68, 32, 79, 66, 74, 69, 67, 84>>

NamePanic(why) == [tag |-> "Panic", val |-> <<>>, err |-> why]

num_entries(self, ssize) == (Len(self) \div ssize) * DBL_SIZE

nth_name(self, n, ssize) ==
    LET from == n * ssize * DBL_SIZE
        to == (n + 1) * ssize * DBL_SIZE
        this_name == SubSeq(self, from + 1, to)
    IN IF to > Len(self) THEN NamePanic("range end index out of range")
       ELSE IF Utf8Valid(this_name)
       THEN [tag |-> "Ok", val |-> Trim(this_name), err |-> "none"]
       ELSE [tag |-> "Ok", val |-> UnnamedObject, err |-> "none"]

\* for i in 0..self.num_entries(ssize)
RECURSIVE IndexLoop(_, _, _, _)
IndexLoop(self, name, ssize, i) ==
    IF i >= num_entries(self, ssize)
    THEN [tag |-> "Err", val |-> NONE, err |-> "ItemNotFound"]
    ELSE LET this == nth_name(self, i, ssize) IN
         IF this.tag = "Panic" THEN [this EXCEPT !.val = NONE]
         ELSE IF this.val = name THEN [tag |-> "Ok", val |-> i, err |-> "none"]
         ELSE IndexLoop(self, name, ssize, i + 1)
index_from_name(self, name, ssize) ==
    IF ssize = 0
    THEN [tag |-> "Panic", val |-> NONE, err |-> "attempt to divide by zero"]
    ELSE IndexLoop(self, name, ssize, 0)

\* The texts written in entries: "MOON", " MOON", "MOON" and a tab, "EARTH",
\* nothing, one NUL, the ill-formed byte 0xFF and U+00E9.
Texts ==
    {<<77, 79, 79, 78>>, <<32, 77, 79, 79, 78>>, <<77, 79, 79, 78, 9>>,
     <<69, 65, 82, 84, 72>>, <<>>, <<0>>, <<255>>, <<195, 169>>}
\* the names looked up: "MOON", " MOON", "EARTH", "VENUS", "UNNAMED OBJECT"
\* and the empty name
Queries ==
    {<<77, 79, 79, 78>>, <<32, 77, 79, 79, 78>>, <<69, 65, 82, 84, 72>>,
     <<86, 69, 78, 85, 83>>, UnnamedObject, <<>>}
\* summary sizes: 16-byte names, the names of an SPK (nd = 2, ni = 6), one
\* name filling the record, and names longer than the record
SummarySizes == {2, 5, 128, 129, 1025}

\* the entries that lie inside the record
WholeEntries(ssize) == RCRD_LEN \div (ssize * DBL_SIZE)

\* A record as a writer of the file leaves it: the texts first, second and
\* last in entries 0, 1 and the last one, every entry padded with spaces,
\* and zeros after the last entry.
RecordByte(ssize, first, second, last, p) ==
    LET width == ssize * DBL_SIZE
        e == (p - 1) \div width
        off == (p - 1) % width
        text == IF e = 0 THEN first
                ELSE IF e = 1 THEN second
                ELSE IF e = WholeEntries(ssize) - 1 THEN last
                ELSE <<>>
    IN IF e >= WholeEntries(ssize) THEN 0
       ELSE IF off < Len(text) THEN text[off + 1]
       ELSE 32
MakeRecord(ssize, first, second, last) ==
    [p \in 1..RCRD_LEN |-> RecordByte(ssize, first, second, last, p)]
Records(ssize) ==
    {MakeRecord(ssize, first, second, last) :
        first \in Texts, second \in Texts, last \in {<<>>, <<77, 79, 79, 78>>}}

\* &self.raw_names[n * summary_size * DBL_SIZE..(n + 1) * summary_size * DBL_SIZE]
ThisNameInclusive(n, ssize) ==
    [from |-> n * ssize * DBL_SIZE, to |-> (n + 1) * ssize * DBL_SIZE + 1]
ThisName(n, ssize) ==
    [from |-> n * ssize * DBL_SIZE, to |-> (n + 1) * ssize * DBL_SIZE]

\* the byte set_nth_name stores at offset k of the entry: copy_from_slice
\* below new_name.len(), a space from there on
WrittenByteZeroFill(new_name, k) == IF k < Len(new_name) THEN new_name[k + 1] ELSE 0
WrittenByte(new_name, k) == IF k < Len(new_name) THEN new_name[k + 1] ELSE 32

\* set_nth_name run alone: the record it leaves
set_nth_name(self, n, ssize, new_name) ==
    LET this_name == ThisName(n, ssize) IN
    IF this_name.to > Len(self)
    THEN [tag |-> "Panic", self |-> self]
    ELSE [tag |-> "Ok",
          self |-> [p \in DOMAIN self |->
                        IF this_name.from < p /\ p <= this_name.to
                        THEN WrittenByte(new_name, p - this_name.from - 1)
                        ELSE self[p]]]

InitNameRecord ==
    /\ op = "none"
    /\ args = <<>>
    /\ ret = NoRet
    /\ ctx = EmptyContext
    /\ almanac = DefaultAlmanac
    /\ earlier = DefaultAlmanac
    /\ loaded = NoLoad
    /\ almOp = NoCall
    /\ raw_names = NoRecord
    /\ writer = NoThread
    /\ reader = NoThread
    /\ hrm = NoHermite

CallNthName ==
    \E ssize \in SummarySizes :
      \E self \in Records(ssize),
         n \in {0, 1, WholeEntries(ssize) - 1, WholeEntries(ssize)} :
        /\ op = "none"
        /\ n >= 0
        /\ op' = "nth_name"
        /\ args' = <<self, n, ssize>>
        /\ ret' = nth_name(self, n, ssize)
        /\ UNCHANGED <<ctx, almanacVars, recordVars, hermiteVars>>

CallIndexFromName ==
    \E ssize \in SummarySizes :
      \E self \in Records(ssize), name \in Queries :
        /\ op = "none"
        /\ op' = "index_from_name"
        /\ args' = <<self, name, ssize>>
        /\ ret' = index_from_name(self, name, ssize)
        /\ UNCHANGED <<ctx, almanacVars, recordVars, hermiteVars>>

CallNumEntries ==
    \E ssize \in SummarySizes :
      \E self \in Records(ssize) :
        /\ op = "none"
        /\ op' = "num_entries"
        /\ args' = <<self, ssize>>
        /\ ret' = [tag |-> "Ok", val |-> num_entries(self, ssize), err |-> "none"]
        /\ UNCHANGED <<ctx, almanacVars, recordVars, hermiteVars>>

\* the ASCII names written: "VENUS", " IO", "IO" and a tab, the empty name,
\* "GANYMEDE-2 ORBITER" and "JUPITER BARYCEN X" (longer than an entry of 16
\* bytes, the second with a space as its 16th byte)
AsciiNames ==
    {<<86, 69, 78, 85, 83>>, <<32, 73, 79>>, <<73, 79, 9>>, <<>>,
     <<71, 65, 78, 89, 77, 69, 68, 69, 45, 50, 32, 79, 82, 66, 73, 84, 69, 82>>,
     <<74, 85, 80, 73, 84, 69, 82, 32, 66, 65, 82, 89, 67, 69, 78, 32, 88>>}

\* set_nth_name(n, summary_size, new_name) on a record whose entry 0 holds any
\* of the texts
CallSetNthName ==
    \E ssize \in SummarySizes :
      \E first \in Texts, new_name \in AsciiNames,
         n \in {0, 1, WholeEntries(ssize)} :
        LET self == MakeRecord(ssize, first, <<>>, <<>>)
            set == set_nth_name(self, n, ssize, new_name)
        IN /\ op = "none"
           /\ op' = "set_nth_name"
           /\ args' = <<self, n, ssize, new_name>>
           /\ ret' = [tag |-> set.tag, val |-> set.self, err |-> "none"]
           /\ UNCHANGED <<ctx, almanacVars, recordVars, hermiteVars>>

\* nth_name(n, summary_size) on the record set_nth_name left
CallNthNameAfterSet ==
    /\ op = "set_nth_name"
    /\ ret.tag = "Ok"
    /\ op' = "nth_name"
    /\ args' = <<ret.val, args[2], args[3], args[4], args[1]>>
    /\ ret' = nth_name(ret.val, args[2], args[3])
    /\ UNCHANGED <<ctx, almanacVars, recordVars, hermiteVars>>

NextNameRecord ==
    \/ Return
    \/ CallNthName
    \/ CallIndexFromName
    \/ CallNumEntries
    \/ CallSetNthName
    \/ CallNthNameAfterSet

SpecNameRecord == InitNameRecord /\ [][NextNameRecord]_vars

----------------------------------------------------------------------------
(* Properties of the name record                                            *)

\* C15: index_from_name returns Ok(i), i the smallest index of an entry whose
\* nth_name equals the name, and Err(ItemNotFound) when no entry does, for
\* every summary size >= 1 and without reading outside the record.
C15_IndexFromName ==
    (op = "index_from_name" /\ args[3] >= 1) =>
        LET self == args[1]
            name == args[2]
            ssize == args[3]
            matches == {i \in 0..(WholeEntries(ssize) - 1) :
                            nth_name(self, i, ssize).val = name}
        IN IF matches = {}
           THEN ret.tag = "Err" /\ ret.err = "ItemNotFound"
           ELSE /\ ret.tag = "Ok"
                /\ ret.val \in matches
                /\ \A i \in matches : ret.val <= i

\* C17: for every n whose entry lies inside the record nth_name returns a
\* string and never aborts: well-formed text comes back with its trailing
\* spaces stripped and otherwise unchanged, ill-formed UTF-8 comes back as
\* "UNNAMED OBJECT".
C17_NthName ==
    (op = "nth_name" /\ (args[2] + 1) * args[3] * DBL_SIZE <= RCRD_LEN) =>
        LET self == args[1]
            n == args[2]
            ssize == args[3]
            stored == SubSeq(self, n * ssize * DBL_SIZE + 1, (n + 1) * ssize * DBL_SIZE)
            text == {i \in DOMAIN stored : stored[i] # 32}
            end == IF text = {} THEN 0 ELSE CHOOSE i \in text : \A j \in text : j <= i
        IN /\ ret.tag = "Ok"
           /\ IF Utf8Valid(stored)
              THEN ret.val = SubSeq(stored, 1, end)
              ELSE ret.val = UnnamedObject

----------------------------------------------------------------------------
(* set_nth_name and nth_name on one NameRecord from two threads.  Both take *)
(* &self, so nothing orders the writes of one with the reads of the other:  *)
(* the writer stores one byte at a time and the reader loads one byte at a  *)
(* time, in any interleaving.                                               *)

\* the record the two threads share: "MOON" and "EARTH" in entries 0 and 1
SharedByte(ssize, p) ==
    RecordByte(ssize, <<77, 79, 79, 78>>, <<69, 65, 82, 84, 72>>, <<>>, p)
SharedRecord(ssize) == [p \in 1..RCRD_LEN |-> SharedByte(ssize, p)]
\* the names written, into entries of 8 bytes (summary size 1): "VENUS",
\* "IO", "GANYMEDE-2" (longer than the entry) and the empty name
NewNames ==
    {<<86, 69, 78, 85, 83>>, <<73, 79>>,
     <<71, 65, 78, 89, 77, 69, 68, 69, 45, 50>>, <<>>}

InitNameRace ==
    /\ \E ssize \in {1}, new_name \in NewNames, wn \in {0, 1}, rn \in {0, 1, 2} :
        /\ raw_names = SharedRecord(ssize)
        /\ writer = [pc |-> "copy", n |-> wn, ssize |-> ssize,
                     new_name |-> new_name, k |-> 0]
        /\ reader = [pc |-> "read", n |-> rn, ssize |-> ssize, k |-> 0,
                     seen |-> <<>>, ret |-> NoRet]
    /\ op = "none"
    /\ args = <<>>
    /\ ret = NoRet
    /\ ctx = EmptyContext
    /\ almanac = DefaultAlmanac
    /\ earlier = DefaultAlmanac
    /\ loaded = NoLoad
    /\ almOp = NoCall
    /\ hrm = NoHermite

\* where the writer goes after offset k: the copy ends at the shorter of the
\* name and the entry, the fill at the end of the entry
WriterAt(k, new_name, cur_len) ==
    IF k >= cur_len THEN "done"
    ELSE IF k < Len(new_name) THEN "copy"
    ELSE "fill"

\* this_name[..].copy_from_slice(..): one byte of the new name
WriterCopy ==
    LET this_name == ThisName(writer.n, writer.ssize)
        cur_len == this_name.to - this_name.from
    IN /\ writer.pc = "copy"
       /\ WriterAt(writer.k, writer.new_name, cur_len) = "copy"
       /\ raw_names' = [raw_names EXCEPT ![this_name.from + writer.k + 1] =
                            WrittenByte(writer.new_name, writer.k)]
       /\ writer' = [writer EXCEPT !.k = writer.k + 1,
                        !.pc = WriterAt(writer.k + 1, writer.new_name, cur_len)]
       /\ UNCHANGED <<reader, resolverVars, almanacVars, hermiteVars>>

\* the copy of an empty name stores nothing
WriterCopyNothing ==
    LET this_name == ThisName(writer.n, writer.ssize)
        cur_len == this_name.to - this_name.from
    IN /\ writer.pc = "copy"
       /\ WriterAt(writer.k, writer.new_name, cur_len) # "copy"
       /\ writer' = [writer EXCEPT !.pc = WriterAt(writer.k, writer.new_name, cur_len)]
       /\ UNCHANGED <<raw_names, reader, resolverVars, almanacVars, hermiteVars>>

\* for mut_char in this_name.iter_mut().skip(new_name.len()): one space
WriterFill ==
    LET this_name == ThisName(writer.n, writer.ssize)
        cur_len == this_name.to - this_name.from
    IN /\ writer.pc = "fill"
       /\ raw_names' = [raw_names EXCEPT ![this_name.from + writer.k + 1] =
                            WrittenByte(writer.new_name, writer.k)]
       /\ writer' = [writer EXCEPT !.k = writer.k + 1,
                        !.pc = WriterAt(writer.k + 1, writer.new_name, cur_len)]
       /\ UNCHANGED <<reader, resolverVars, almanacVars, hermiteVars>>

\* nth_name: one byte of the entry loaded
ReaderLoad ==
    LET from == reader.n * reader.ssize * DBL_SIZE
        to == (reader.n + 1) * reader.ssize * DBL_SIZE
    IN /\ reader.pc = "read"
       /\ reader.k < to - from
       /\ reader' = [reader EXCEPT !.k = reader.k + 1,
                        !.seen = Append(reader.seen, raw_names[from + reader.k + 1])]
       /\ UNCHANGED <<raw_names, writer, resolverVars, almanacVars, hermiteVars>>

\* nth_name: the bytes loaded are decoded and trimmed
ReaderReturn ==
    LET from == reader.n * reader.ssize * DBL_SIZE
        to == (reader.n + 1) * reader.ssize * DBL_SIZE
    IN /\ reader.pc = "read"
       /\ reader.k = to - from
       /\ reader' = [reader EXCEPT !.pc = "done",
                        !.ret = IF Utf8Valid(reader.seen)
                                THEN [tag |-> "Ok", val |-> Trim(reader.seen), err |-> "none"]
                                ELSE [tag |-> "Ok", val |-> UnnamedObject, err |-> "none"]]
       /\ UNCHANGED <<raw_names, writer, resolverVars, almanacVars, hermiteVars>>

NextNameRace ==
    \/ WriterCopy
    \/ WriterCopyNothing
    \/ WriterFill
    \/ ReaderLoad
    \/ ReaderReturn

SpecNameRace == InitNameRace /\ [][NextNameRace]_vars

\* the name of the writer's entry before the call and after it
OldName == nth_name(SharedRecord(writer.ssize), writer.n, writer.ssize)
NewName ==
    nth_name(set_nth_name(SharedRecord(writer.ssize), writer.n, writer.ssize,
                          writer.new_name).self,
             writer.n, writer.ssize)

\* C16: set_nth_name rewrites the entry in place, unordered with the reads of
\* nth_name.  A reader of the same entry loads, byte by byte, the old or the
\* new byte (so that it can return a name that is neither the old nor the
\* new one); a reader of another entry returns that entry's name, and no
\* byte outside the writer's entry changes; the writer alone leaves the
\* entry as set_nth_name does.
C16_DataRace ==
    LET mine == [from |-> writer.n * writer.ssize * DBL_SIZE,
                 to |-> writer.n * writer.ssize * DBL_SIZE + writer.ssize * DBL_SIZE]
        before(p) == SharedByte(writer.ssize, p)
        after(p) == IF mine.from < p /\ p <= mine.to
                    THEN WrittenByte(writer.new_name, p - mine.from - 1)
                    ELSE before(p)
        from == reader.n * reader.ssize * DBL_SIZE
    IN /\ raw_names =
            [p \in 1..RCRD_LEN |->
                IF mine.from < p /\ p <= mine.to /\ p - mine.from <= writer.k
                THEN after(p) ELSE before(p)]
       /\ writer.pc = "done" =>
            raw_names = set_nth_name(SharedRecord(writer.ssize), writer.n,
                                     writer.ssize, writer.new_name).self
       /\ \A i \in DOMAIN reader.seen :
            reader.seen[i] \in {before(from + i), after(from + i)}
       /\ (reader.pc = "done" /\ reader.n # writer.n) =>
            reader.ret = nth_name(SharedRecord(reader.ssize), reader.n, reader.ssize)

\* a reader of the writer's entry returned a name that is neither the old name
\* nor the new one
C16_Witness ==
    /\ reader.pc = "done"
    /\ writer.pc = "done"
    /\ reader.n = writer.n
    /\ reader.ret.val \notin {OldName.val, NewName.val}

----------------------------------------------------------------------------
(* The shape of a path returned by try_ephemeris_path                       *)

\* C19: whenever try_ephemeris_path(source) returns Ok((len, path)), path[0] is
\* the parent of the source's entry, path[i+1] is the parent of the entry of
\* path[i], the last entry is the barycenter (0) or an identifier without an
\* entry, no earlier entry is such a terminal, the source's own identifier is
\* not recorded, and path[len..] is None.
C19_PathStructure ==
    (IsPath /\ ret.tag = "Ok") =>
        LET source == args[1].ephemeris_hash
            len == ret.len
            path == ret.path
            terminal(h) == h = SOLAR_SYSTEM_BARYCENTER \/ ~HasEntry(ctx, h)
        IN /\ len \in 1..MAX_TREE_DEPTH
           /\ path[0] = ParentOf(ctx, source)
           /\ \A i \in 0..(len - 2) : path[i + 1] = ParentOf(ctx, path[i])
           /\ terminal(path[len - 1])
           /\ \A i \in 0..(len - 2) : ~terminal(path[i])
           /\ \A i \in 0..(len - 1) : path[i] # source
           /\ \A i \in len..(MAX_TREE_DEPTH - 1) : path[i] = NONE

----------------------------------------------------------------------------
(* hrmint_: Hermite interpolation over a triangular interpolation table.    *)
(* An f64 is a binary floating-point number m * 2^e (m odd, or zero) whose  *)
(* significand has MantissaBits bits: 53 in the build, fewer here.  Every   *)
(* operation rounds its exact result to the nearest such number, ties to    *)
(* even.  The exponent is unbounded (no value of the model overflows or     *)
(* underflows) and the sign of zero is not kept.                            *)

MantissaBits == 5

\* the f64 nearest to the exact result sign(m) * (|m| + s) * 2^e, where
\* 0 < s < 1 when sticky and s = 0 otherwise
Round(m, e, sticky) ==
    LET a == IF m < 0 THEN 0 - m ELSE m
        sign == IF m < 0 THEN 0 - 1 ELSE 1
        bits == CHOOSE k \in 0..30 : a < 2^k /\ (k = 0 \/ 2^(k - 1) <= a)
        shift == IF bits > MantissaBits THEN bits - MantissaBits ELSE 0
        q == a \div 2^shift
        rem == a % 2^shift
        half == 2^shift \div 2
        up == shift > 0 /\ (rem > half \/ (rem = half /\ (sticky \/ q % 2 = 1)))
        r == IF up THEN q + 1 ELSE q
        zeros == CHOOSE k \in 0..30 : r % 2^k = 0 /\ r % 2^(k + 1) # 0
    IN IF r = 0 THEN [m |-> 0, e |-> 0]
       ELSE [m |-> sign * (r \div 2^zeros), e |-> e + shift + zeros]

\* a + b, a - b, a * b and a / b of f64
FAdd(a, b) ==
    LET e == IF a.e < b.e THEN a.e ELSE b.e
    IN Round(a.m * 2^(a.e - e) + b.m * 2^(b.e - e), e, FALSE)
FSub(a, b) == FAdd(a, [b EXCEPT !.m = 0 - b.m])
FMul(a, b) == Round(a.m * b.m, a.e + b.e, FALSE)
\* the quotient is developed to MantissaBits + 2 bits or more; what is left of
\* the division is the sticky bit
FDiv(a, b) ==
    LET an == IF a.m < 0 THEN 0 - a.m ELSE a.m
        bn == IF b.m < 0 THEN 0 - b.m ELSE b.m
        sign == IF (a.m < 0) = (b.m < 0) THEN 1 ELSE 0 - 1
        k == 2 * MantissaBits + 2
        num == an * 2^k
    IN Round(sign * (num \div bn), a.e - b.e - k, num % bn # 0)

\* let work: &mut [f64] = &mut [0.0; 256]
WorkLen == 256

\* work[i + col * work_dim1 - work_offset], entry WORK(i, col) of the Fortran
\* routine: column 1 holds function values, column 2 derivatives
WorkIndexOneBased(n, i, col) ==
    LET work_dim1 == n * 2
        work_offset == work_dim1
    IN i + (work_dim1 * col) - work_offset
WorkIndex(n, i, col) ==
    LET work_dim1 == n * 2
        work_offset == work_dim1 + 1
    IN i + (work_dim1 * col) - work_offset

\* the bounds check of every work[..] of a statement, entries being the
\* <<i, col>> it loads and stores: an index outside the array panics; lo and
\* hi remember the smallest and the largest index used so far
Access(h, entries) ==
    LET used == {WorkIndex(h.n, e[1], e[2]) : e \in entries}
        low == CHOOSE k \in used : \A u \in used : k <= u
        high == CHOOSE k \in used : \A u \in used : u <= k
    IN IF \E k \in used : k \notin DOMAIN h.work
       THEN [h EXCEPT !.pc = "panic"]
       ELSE [h EXCEPT !.lo = IF low < h.lo THEN low ELSE h.lo,
                      !.hi = IF high > h.hi THEN high ELSE h.hi]

\* within one table step the derivative entry is written first, the function
\* value second
StepOrderValueFirst == <<"value", "derivative">>
StepOrder == <<"derivative", "value">>

Read(h, i, col) ==
    IF h.pc = "panic" THEN Round(0, 0, FALSE) ELSE h.work[WorkIndex(h.n, i, col)]
\* a store into WORK(i, col); fcol and dcol remember the column of the
\* interpolation table the entry now belongs to (1 is the input data, the
\* second-column pass computes column 2, pass j computes column j + 1)
Write(h, i, col, v) ==
    LET computed == IF h.pc = "table" THEN h.j + 1 ELSE 2 IN
    IF h.pc = "panic" THEN h
    ELSE IF col = 1
    THEN [h EXCEPT !.work[WorkIndex(h.n, i, col)] = v, !.fcol[i] = computed]
    ELSE [h EXCEPT !.work[WorkIndex(h.n, i, col)] = v, !.dcol[i] = computed]

\* the statement after the one just executed: the second part of the step, the
\* next step of the loop, or what follows the loop
Advance(h) ==
    IF h.pc = "panic" THEN h
    ELSE IF h.part = 1 THEN [h EXCEPT !.part = 2]
    ELSE IF h.pc = "second"
    THEN (IF h.i__ < h.n - 1 THEN [h EXCEPT !.i__ = h.i__ + 1, !.part = 1]
          ELSE [h EXCEPT !.pc = "last", !.part = 1])
    ELSE IF h.pc = "last"
    THEN [h EXCEPT !.pc = "table", !.j = 2, !.i = 1, !.part = 1]
    ELSE IF h.i < (h.n * 2) - h.j THEN [h EXCEPT !.i = h.i + 1, !.part = 1]
    ELSE IF h.j < (h.n * 2) - 1 THEN [h EXCEPT !.j = h.j + 1, !.i = 1, !.part = 1]
    ELSE [h EXCEPT !.pc = "return"]

\* the calls of the model: pairwise distinct abscissas (a repeated abscissa
\* divides by zero) from 0, 1 and 3, ordinates 0, 1 and the f64 of the literal
\* 0.1, x at a sample and between samples; one call of a single sample and one
\* of too few ordinates; and calls of 0, 16, 32, 64 and 65 samples whose
\* abscissas are the first f64 from 0 up that the significand can hold and
\* whose ordinates are all 0
HermiteCalls ==
    LET zero == Round(0, 0, FALSE)
        one == Round(1, 0, FALSE)
        two == Round(2, 0, FALSE)
        three == Round(3, 0, FALSE)
        tenth == FDiv(one, Round(10, 0, FALSE))
        abscissas == {zero, one, three}
        ordinates == {zero, one, tenth}
        pairs == {xs \in [1..2 -> abscissas] : xs[1] # xs[2]}
        triples == {<<zero, one, three>>, <<three, zero, one>>}
        full == 2^MantissaBits
        half == full \div 2
        abscissa(k) ==
            IF k < full THEN Round(k, 0, FALSE)
            ELSE Round((half + ((k - full) % half)) * 2^(((k - full) \div half) + 1),
                       0, FALSE)
        long(n) == [xvals |-> [k \in 1..n |-> abscissa(k - 1)],
                    yvals |-> [k \in 1..(n * 2) |-> zero], x |-> zero]
    IN {[xvals |-> xs, yvals |-> ys, x |-> x] :
            xs \in pairs, ys \in [1..4 -> ordinates], x \in abscissas \cup {two}}
       \cup {[xvals |-> xs, yvals |-> ys, x |-> x] :
            xs \in triples, ys \in [1..6 -> {zero, one}], x \in abscissas \cup {two}}
       \cup {[xvals |-> <<zero>>, yvals |-> <<one, zero>>, x |-> zero],
             [xvals |-> <<zero, one>>, yvals |-> <<one, zero, one>>, x |-> zero]}
       \cup {long(n) : n \in {0, 16, 32, 64, 65}}

InitHermite ==
    /\ \E call \in HermiteCalls :
         hrm = [pc |-> "start", xvals |-> call.xvals, yvals |-> call.yvals,
                x |-> call.x, n |-> Len(call.xvals),
                work |-> [k \in 0..(WorkLen - 1) |-> Round(0, 0, FALSE)],
                i__ |-> 0, j |-> 0, i |-> 0, part |-> 1,
                fcol |-> <<>>, dcol |-> <<>>, lo |-> WorkLen, hi |-> 0 - 1,
                f |-> Round(0, 0, FALSE), df |-> Round(0, 0, FALSE)]
    /\ ctx = EmptyContext
    /\ op = "none"
    /\ args = <<>>
    /\ ret = NoRet
    /\ almanac = DefaultAlmanac
    /\ earlier = DefaultAlmanac
    /\ loaded = NoLoad
    /\ almOp = NoCall
    /\ raw_names = NoRecord
    /\ writer = NoThread
    /\ reader = NoThread

\* assert!(n > 1), then for i__ in 1..=n * 2 { work[..] = yvals[i__ - 1] }
HrmCopy ==
    /\ hrm.pc = "start"
    /\ hrm' = IF ~(hrm.n > 1) \/ Len(hrm.yvals) < hrm.n * 2
              THEN [hrm EXCEPT !.pc = "panic"]
              ELSE LET h == Access(hrm, {<<i__, 1>> : i__ \in 1..(hrm.n * 2)}) IN
                   IF h.pc = "panic" THEN h
                   ELSE [h EXCEPT
                      !.work = [k \in 0..(WorkLen - 1) |->
                                  IF \E i__ \in 1..(hrm.n * 2) : WorkIndex(hrm.n, i__, 1) = k
                                  THEN hrm.yvals[k + 1] ELSE hrm.work[k]],
                      !.fcol = [p \in 1..(hrm.n * 2) |-> 1],
                      !.dcol = [p \in 1..(hrm.n * 2) |-> 0],
                      !.pc = "second", !.i__ = 1, !.part = 1]
    /\ UNCHANGED <<resolverVars, almanacVars, recordVars>>

\* work[prev + work_dim1 * 2 - work_offset] = work[this__ + ..];
\* work[this__ + work_dim1 * 2 - work_offset] = (work[next + ..] - work[prev + ..]) / denom
SecondDerivative ==
    /\ hrm.pc = "second" /\ StepOrder[hrm.part] = "derivative"
    /\ LET denom == FSub(hrm.xvals[hrm.i__ + 1], hrm.xvals[hrm.i__])
           prev == (hrm.i__ * 2) - 1
           this__ == prev + 1
           next == this__ + 1
           a == Access(hrm, {<<prev, 2>>, <<this__, 1>>, <<this__, 2>>,
                             <<next, 1>>, <<prev, 1>>})
           h1 == Write(a, prev, 2, Read(a, this__, 1))
           h2 == Write(h1, this__, 2,
                       FDiv(FSub(Read(h1, next, 1), Read(h1, prev, 1)), denom))
       IN hrm' = Advance(h2)
    /\ UNCHANGED <<resolverVars, almanacVars, recordVars>>

\* temp = work[this__ + ..] * (x - xvals[i__ - 1]) + work[prev + ..];
\* work[this__ + ..] = (c1 * work[prev + ..] + c2 * work[next + ..]) / denom;
\* work[prev + ..] = temp
SecondValue ==
    /\ hrm.pc = "second" /\ StepOrder[hrm.part] = "value"
    /\ LET c1 == FSub(hrm.xvals[hrm.i__ + 1], hrm.x)
           c2 == FSub(hrm.x, hrm.xvals[hrm.i__])
           denom == FSub(hrm.xvals[hrm.i__ + 1], hrm.xvals[hrm.i__])
           prev == (hrm.i__ * 2) - 1
           this__ == prev + 1
           next == this__ + 1
           a == Access(hrm, {<<this__, 1>>, <<prev, 1>>, <<next, 1>>})
           temp == FAdd(FMul(Read(a, this__, 1), FSub(hrm.x, hrm.xvals[hrm.i__])),
                        Read(a, prev, 1))
           h1 == Write(a, this__, 1,
                       FDiv(FAdd(FMul(c1, Read(a, prev, 1)),
                                 FMul(c2, Read(a, next, 1))), denom))
           h2 == Write(h1, prev, 1, temp)
       IN hrm' = Advance(h2)
    /\ UNCHANGED <<resolverVars, almanacVars, recordVars>>

\* work[n * 2 - 1 + work_dim1 * 2 - work_offset] = work[n * 2 + work_dim1 - work_offset]
LastDerivative ==
    /\ hrm.pc = "last" /\ StepOrder[hrm.part] = "derivative"
    /\ LET a == Access(hrm, {<<(hrm.n * 2) - 1, 2>>, <<hrm.n * 2, 1>>})
       IN hrm' = Advance(Write(a, (hrm.n * 2) - 1, 2, Read(a, hrm.n * 2, 1)))
    /\ UNCHANGED <<resolverVars, almanacVars, recordVars>>

\* work[n * 2 - 1 + ..] = work[n * 2 + ..] * (x - xvals[n - 1]) + work[n * 2 - 1 + ..]
LastValue ==
    /\ hrm.pc = "last" /\ StepOrder[hrm.part] = "value"
    /\ LET a == Access(hrm, {<<(hrm.n * 2) - 1, 1>>, <<hrm.n * 2, 1>>})
       IN hrm' = Advance(Write(a, (hrm.n * 2) - 1, 1,
                               FAdd(FMul(Read(a, hrm.n * 2, 1),
                                         FSub(hrm.x, hrm.xvals[hrm.n])),
                                    Read(a, (hrm.n * 2) - 1, 1))))
    /\ UNCHANGED <<resolverVars, almanacVars, recordVars>>

\* work[i + work_dim1 * 2 - work_offset] = (c1 * work[i + work_dim1 * 2 - ..]
\*     + c2 * work[i + 1 + work_dim1 * 2 - ..] + (work[i + 1 + ..] - work[i + ..])) / denom
TableDerivative ==
    /\ hrm.pc = "table" /\ StepOrder[hrm.part] = "derivative"
    /\ LET xi == (hrm.i + 1) \div 2
           xij == (hrm.i + hrm.j + 1) \div 2
           c1 == FSub(hrm.xvals[xij], hrm.x)
           c2 == FSub(hrm.x, hrm.xvals[xi])
           denom == FSub(hrm.xvals[xij], hrm.xvals[xi])
           a == Access(hrm, {<<hrm.i, 2>>, <<hrm.i + 1, 2>>,
                             <<hrm.i + 1, 1>>, <<hrm.i, 1>>})
       IN hrm' = Advance(Write(a, hrm.i, 2,
                    FDiv(FAdd(FAdd(FMul(c1, Read(a, hrm.i, 2)),
                                   FMul(c2, Read(a, hrm.i + 1, 2))),
                              FSub(Read(a, hrm.i + 1, 1), Read(a, hrm.i, 1))),
                         denom)))
    /\ UNCHANGED <<resolverVars, almanacVars, recordVars>>

\* work[i + work_dim1 - work_offset] = (c1 * work[i + ..] + c2 * work[i + 1 + ..]) / denom
TableValue ==
    /\ hrm.pc = "table" /\ StepOrder[hrm.part] = "value"
    /\ LET xi == (hrm.i + 1) \div 2
           xij == (hrm.i + hrm.j + 1) \div 2
           c1 == FSub(hrm.xvals[xij], hrm.x)
           c2 == FSub(hrm.x, hrm.xvals[xi])
           denom == FSub(hrm.xvals[xij], hrm.xvals[xi])
           a == Access(hrm, {<<hrm.i, 1>>, <<hrm.i + 1, 1>>})
       IN hrm' = Advance(Write(a, hrm.i, 1,
                    FDiv(FAdd(FMul(c1, Read(a, hrm.i, 1)),
                              FMul(c2, Read(a, hrm.i + 1, 1))), denom)))
    /\ UNCHANGED <<resolverVars, almanacVars, recordVars>>

\* let f = work[work_dim1 + 1 - work_offset];
\* let df = work[work_dim1 * 2 + 1 - work_offset]; (f, df)
HrmReturn ==
    /\ hrm.pc = "return"
    /\ LET a == Access(hrm, {<<1, 1>>, <<1, 2>>})
       IN hrm' = IF a.pc = "panic" THEN a
                 ELSE [a EXCEPT !.pc = "done", !.f = Read(a, 1, 1), !.df = Read(a, 1, 2)]
    /\ UNCHANGED <<resolverVars, almanacVars, recordVars>>

NextHermite ==
    \/ HrmCopy
    \/ SecondDerivative
    \/ SecondValue
    \/ LastDerivative
    \/ LastValue
    \/ TableDerivative
    \/ TableValue
    \/ HrmReturn

SpecHermite == InitHermite /\ [][NextHermite]_vars

----------------------------------------------------------------------------
(* Properties of hrmint_                                                    *)

\* C18: for n >= 2 pairwise distinct abscissas, hrmint_(xvals, yvals, xvals[k])
\* returns exactly (yvals[2k], yvals[2k+1]) for every sample index k.
C18_SampleExact ==
    hrm.pc = "done" =>
        \A k \in 0..(hrm.n - 1) :
            hrm.x = hrm.xvals[k + 1]
                => (hrm.f = hrm.yvals[(2 * k) + 1] /\ hrm.df = hrm.yvals[(2 * k) + 2])

\* C20: within every table step of hrmint_ the derivative entry is stored
\* before the function-value entry of the same position is overwritten, and
\* every derivative update reads only function values that still belong to the
\* previous column of the interpolation table.
C20_DerivativeFirst ==
    hrm.pc \in {"second", "last", "table", "return", "done"} =>
        LET previous == IF hrm.pc = "table" THEN hrm.j ELSE 1
            reads == IF hrm.pc = "second"
                     THEN {(hrm.i__ * 2) - 1, hrm.i__ * 2, (hrm.i__ * 2) + 1}
                     ELSE IF hrm.pc = "last" THEN {hrm.n * 2}
                     ELSE {hrm.i, hrm.i + 1}
        IN /\ \A p \in 1..(hrm.n * 2) :
                hrm.fcol[p] > 1 => hrm.dcol[p] >= hrm.fcol[p]
           /\ (hrm.pc \in {"second", "last", "table"}
                    /\ StepOrder[hrm.part] = "derivative")
                => \A p \in reads : hrm.fcol[p] = previous

\* a call of three samples has returned: the top-left entries went through
\* every column, derivative and function value
C20_Witness ==
    /\ hrm.pc = "done"
    /\ hrm.n = 3
    /\ hrm.fcol[1] = 6
    /\ hrm.dcol[1] = 6

----------------------------------------------------------------------------
(* The number of entries of a name record                                   *)

\* C21: num_entries(summary_size) returns the number of fixed-width names that
\* fit in one 1024-byte name record, floor(1024 / (summary_size * 8)), so that
\* nth_name(i, summary_size) stays inside the record for every
\* i < num_entries(summary_size).
C21_NumEntries ==
    op = "num_entries" =>
        LET self == args[1]
            ssize == args[2]
        IN /\ ret.tag = "Ok"
           /\ ret.val = RCRD_LEN \div (ssize * DBL_SIZE)
           /\ \A i \in 0..(ret.val - 1) : (i + 1) * ssize * DBL_SIZE <= Len(self)

----------------------------------------------------------------------------
(* set_nth_name followed by nth_name, by one caller                         *)

\* C22: after set_nth_name(n, summary_size, new_name) with an ASCII new_name
\* and n inside the record, the entry holds new_name cut to the entry's width
\* and spaces after it, and nth_name(n, summary_size) returns that text
\* without the whitespace at its ends: new_name itself when it fits and has no
\* whitespace at either end, whatever the entry held before.
C22_SetThenGet ==
    (op = "nth_name" /\ Len(args) = 5) =>
        LET self == args[1]
            n == args[2]
            width == args[3] * DBL_SIZE
            new_name == args[4]
            before == args[5]
            cut == SubSeq(new_name, 1, IF Len(new_name) < width THEN Len(new_name) ELSE width)
            space == {9, 10, 11, 12, 13, 32}
            text == {i \in DOMAIN cut : cut[i] \notin space}
            lo == IF text = {} THEN 1 ELSE CHOOSE i \in text : \A k \in text : i <= k
            hi == IF text = {} THEN 0 ELSE CHOOSE i \in text : \A k \in text : k <= i
        IN /\ \A p \in DOMAIN self :
                self[p] = IF p <= n * width \/ p > (n + 1) * width THEN before[p]
                          ELSE IF p - (n * width) <= Len(cut) THEN cut[p - (n * width)]
                          ELSE 32
           /\ ret.tag = "Ok"
           /\ ret.val = SubSeq(cut, lo, hi)
           /\ (Len(new_name) <= width /\ text # {} /\ lo = 1 /\ hi = Len(new_name))
                => ret.val = new_name

\* a name longer than the entry was written over "EARTH" and read back cut
C22_Witness ==
    /\ op = "nth_name"
    /\ Len(args) = 5
    /\ Len(args[4]) > args[3] * DBL_SIZE
    /\ args[5][1] = 69
    /\ ret.tag = "Ok"
    /\ Len(ret.val) = 15

----------------------------------------------------------------------------
(* What translate_from_to and find_ephemeris_root return                    *)

\* C23: every successful return of translate_from_to, for any loaded data,
\* any two frames and any epoch, is the pair (zero vector, zero vector); the
\* only success without a recursive call is the equal-frames case, and the
\* epoch never influences the result.
C23_ZeroTranslation ==
    (IsTranslate /\ ret.tag = "Ok") =>
        /\ ret.pos = <<0, 0, 0>>
        /\ ret.vel = <<0, 0, 0>>
        /\ ret.depth = 0 <=> FrameEq(args[1], args[2])
        /\ \A epoch \in Epochs :
              LET other == translate_from_to(ctx, args[1], args[2], epoch)
              IN other.tag = "Ok" /\ other.pos = ret.pos /\ other.vel = ret.vel

\* a success between two different frames, through the recursive calls, at the
\* later epoch
C23_Witness ==
    /\ IsTranslate
    /\ ret.tag = "Ok"
    /\ ret.depth > 0
    /\ ret.roots > 0
    /\ args[3] = 1

\* C24: for all frames A and B whose paths both resolve,
\* find_ephemeris_root(A, B) and find_ephemeris_root(B, A) return the same
\* identifier or both fail, whichever path is the longer one and so whichever
\* is scanned in the outer loop.
C24_RootSymmetry ==
    (IsRoot /\ try_ephemeris_path(ctx, args[1]).tag = "Ok"
            /\ try_ephemeris_path(ctx, args[2]).tag = "Ok") =>
        LET back == find_ephemeris_root(ctx, args[2], args[1])
        IN IF ret.tag = "Ok"
           THEN back.tag = "Ok" /\ back.val = ret.val
           ELSE back.tag # "Ok"

\* two different frames with paths of different lengths that meet past the
\* head of the longer one
C24_Witness ==
    /\ IsRoot
    /\ ~FrameEq(args[1], args[2])
    /\ ret.tag = "Ok"
    /\ LET from == try_ephemeris_path(ctx, args[1])
           to == try_ephemeris_path(ctx, args[2])
       IN /\ from.tag = "Ok" /\ to.tag = "Ok"
          /\ from.len > to.len
          /\ to.len > 1
          /\ ret.val # from.path[0]

----------------------------------------------------------------------------
(* The work array of hrmint_                                                *)

\* C25: hrmint_ keeps every access inside its 256-element work array exactly
\* for 2 <= n <= 64 samples (function column in work[0..2n), derivative column
\* in work[2n..4n)), given len(yvals) >= 2n; n < 2 is rejected by the
\* assertion, and n = 65 is the smallest sample count for which an index
\* falls outside the array.
C25_WorkBounds ==
    hrm.pc # "none" =>
        /\ (hrm.n \in 2..64 /\ Len(hrm.yvals) >= hrm.n * 2) => hrm.pc # "panic"
        /\ hrm.n < 2 => (hrm.pc \in {"start", "panic"} /\ hrm.hi < 0)
        /\ hrm.n > 64 => hrm.pc \notin {"return", "done"}
        /\ \A i \in 1..(hrm.n * 2) :
              /\ WorkIndex(hrm.n, i, 1) = i - 1
              /\ WorkIndex(hrm.n, i, 2) = (hrm.n * 2) + i - 1
        /\ hrm.hi >= 0 => (0 <= hrm.lo /\ hrm.hi < (hrm.n * 4) - 1 /\ hrm.hi < WorkLen)
        /\ hrm.pc = "done" => (hrm.lo = 0 /\ hrm.hi = (hrm.n * 4) - 2)

\* the call of 64 samples has returned, having used work[254]
C25_Witness ==
    /\ hrm.pc = "done"
    /\ hrm.n = 64
    /\ hrm.hi = 254

\* the call of 65 samples has panicked in the second-column pass
C25_OverrunReached ==
    ~(hrm.pc = "panic" /\ hrm.n = 65 /\ hrm.i__ = 64 /\ hrm.hi = 255)

----------------------------------------------------------------------------
(* EphemerisValidator::execute of the test framework: the rows it writes    *)
(* for the data a validator yields.  An f64 of a datum is a number that     *)
(* names it; execute computes with none of them.                            *)

COMPONENT == <<"X", "Y", "Z", "VX", "VY", "VZ">>
BATCH_SIZE == 10000

\* the data a validator yields: datum k has the SPICE values 10k + 1 .. 10k + 6
\* and the ANISE values 10k + 11 .. 10k + 16 for x, y, z, vx, vy, vz
MaxData == 3
EphemValData ==
    {[src_frame |-> "EARTH", dst_frame |-> "MOON", epoch_offset |-> k,
      spice_val_x_km |-> (10 * k) + 1, anise_val_x_km |-> (10 * k) + 11,
      spice_val_y_km |-> (10 * k) + 2, anise_val_y_km |-> (10 * k) + 12,
      spice_val_z_km |-> (10 * k) + 3, anise_val_z_km |-> (10 * k) + 13,
      spice_val_vx_km_s |-> (10 * k) + 4, anise_val_vx_km_s |-> (10 * k) + 14,
      spice_val_vy_km_s |-> (10 * k) + 5, anise_val_vy_km_s |-> (10 * k) + 15,
      spice_val_vz_km_s |-> (10 * k) + 6, anise_val_vz_km_s |-> (10 * k) + 16] :
        k \in 0..2}

\* for (i, data) in (&mut validator).enumerate(): the six pushes for data,
\* then persist() if i % BATCH_SIZE == 0; after the loop persist() and close.
\* persist() unwraps the writer, writes the batch to the file and empties it.
RECURSIVE ExecuteLoop(_, _, _, _, _)
ExecuteLoop(self, yielded, i, batch, file) ==
    IF i >= Len(yielded)
    THEN IF self.writer THEN [tag |-> "Ok", val |-> file \o batch, err |-> "none"]
         ELSE [tag |-> "Panic", val |-> file,
               err |-> "called Option::unwrap() on a None value"]
    ELSE LET data == yielded[i + 1]
             values(j) ==
                 IF j = 0 THEN <<data.spice_val_x_km, data.anise_val_x_km>>
                 ELSE IF j = 1 THEN <<data.spice_val_y_km, data.anise_val_y_km>>
                 ELSE IF j = 2 THEN <<data.spice_val_z_km, data.anise_val_z_km>>
                 ELSE IF j = 3 THEN <<data.spice_val_vy_km_s, data.anise_val_vy_km_s>>
                 ELSE IF j = 4 THEN <<data.spice_val_vz_km_s, data.anise_val_vz_km_s>>
                 ELSE <<data.spice_val_vz_km_s, data.anise_val_vz_km_s>>
             pushed == [j \in 1..Len(COMPONENT) |->
                          [src_frame |-> data.src_frame, dst_frame |-> data.dst_frame,
                           component |-> COMPONENT[j],
                           epoch_offset |-> data.epoch_offset,
                           spice_val |-> values(j - 1)[1],
                           anise_val |-> values(j - 1)[2]]]
         IN IF i % BATCH_SIZE # 0
            THEN ExecuteLoop(self, yielded, i + 1, batch \o pushed, file)
            ELSE IF self.writer
            THEN ExecuteLoop(self, yielded, i + 1, <<>>, file \o batch \o pushed)
            ELSE [tag |-> "Panic", val |-> file,
                  err |-> "called Option::unwrap() on a None value"]

\* buffers is Vec::with_capacity(..), of length 0: buffers[i] of the first
\* input file is out of bounds
execute(self, yielded) ==
    IF Len(self.input_file_names) > 0
    THEN [tag |-> "Panic", val |-> <<>>, err |-> "index out of bounds"]
    ELSE ExecuteLoop(self, yielded, 0, <<>>, <<>>)

CallExecute ==
    \E files \in 0..1, set_up \in BOOLEAN, len \in 0..MaxData :
      \E yielded \in [1..len -> EphemValData] :
        LET self == [input_file_names |-> [k \in 1..files |-> "de438s.bsp"],
                     writer |-> set_up]
        IN /\ op = "none"
           /\ op' = "execute"
           /\ args' = <<self, yielded>>
           /\ ret' = execute(self, yielded)
           /\ UNCHANGED <<ctx, almanacVars, recordVars, hermiteVars>>

NextValidator ==
    \/ Return
    \/ CallExecute

SpecValidator == InitNameRecord /\ [][NextValidator]_vars

\* C26: EphemerisValidator::execute records, for every datum yielded by the
\* validator, six rows labelled X, Y, Z, VX, VY, VZ in that order, and the row
\* labelled with a component holds that same component's SPICE and ANISE
\* values.
C26_ComponentRows ==
    (op = "execute" /\ ret.tag = "Ok") =>
        LET yielded == args[2]
            rows == ret.val
            spice(data, label) ==
                IF label = "X" THEN data.spice_val_x_km
                ELSE IF label = "Y" THEN data.spice_val_y_km
                ELSE IF label = "Z" THEN data.spice_val_z_km
                ELSE IF label = "VX" THEN data.spice_val_vx_km_s
                ELSE IF label = "VY" THEN data.spice_val_vy_km_s
                ELSE data.spice_val_vz_km_s
            anise(data, label) ==
                IF label = "X" THEN data.anise_val_x_km
                ELSE IF label = "Y" THEN data.anise_val_y_km
                ELSE IF label = "Z" THEN data.anise_val_z_km
                ELSE IF label = "VX" THEN data.anise_val_vx_km_s
                ELSE IF label = "VY" THEN data.anise_val_vy_km_s
                ELSE data.anise_val_vz_km_s
            labels == <<"X", "Y", "Z", "VX", "VY", "VZ">>
        IN /\ Len(rows) = 6 * Len(yielded)
           /\ \A i \in 1..Len(yielded) : \A j \in 1..6 :
                LET row == rows[(6 * (i - 1)) + j]
                IN /\ row.component = labels[j]
                   /\ row.spice_val = spice(yielded[i], row.component)
                   /\ row.anise_val = anise(yielded[i], row.component)

====
